---- MODULE Spec2Model ----
(***************************************************************************)
(* heapbuf: a reference counted, window addressed raw memory buffer.       *)
(*                                                                         *)
(* HBuf (src/src/buf.rs) holds data_ptr, capacity, limit, position and an  *)
(* Arc<Option<HBufDestructor>>.  HBufDestructor (src/src/destructor.rs)    *)
(* runs the release action in its Drop.  usize is modelled as a machine    *)
(* word of Bits bits; pointers have the same width.                        *)
(***************************************************************************)
EXTENDS Integers, Sequences, FiniteSets, TLC

\* ------------------------------------------------------------- bounds
\* width of the machine word (usize, pointers), in bits
Bits == 4
\* largest size of an allocation / adopted region
MaxCap == 3
\* number of Arc<Option<HBufDestructor>> entries ever created
MaxAllocs == 2
\* number of HBuf instances alive at the same time
MaxBufs == 3
\* longest external buffer handed to read / write
MaxLen == 2
\* largest byte value written by a caller
MaxByte == 1
\* number of threads of the concurrent drop specification
MaxThreads == 2

\* ------------------------------------------------------------- words
RECURSIVE Pow2(_)
Pow2(n) == IF n = 0 THEN 1 ELSE 2 * Pow2(n - 1)

UsizeMod == Pow2(Bits)
UsizeMax == UsizeMod - 1
Usize == 0 .. UsizeMax
Byte == 0 .. MaxByte

Handles == 1 .. MaxBufs
ArcIds == 1 .. MaxAllocs
Threads == 1 .. MaxThreads

\* the value of an arithmetic expression that panicked
\* ("attempt to add/subtract with overflow")
OVERFLOW == 0 - 1

Min(a, b) == IF a <= b THEN a ELSE b

VARIABLES
    overflow_checks,  \* build profile: TRUE = overflow panics, FALSE = wraps
    bufs,             \* the HBuf instances, by slot
    arcs,             \* the Arc<Option<HBufDestructor>> entries
    released,         \* the release actions run so far, in order
    mem,              \* the bytes of the address space
    last,             \* the last operation: its arguments, result, pre-state
    pc,               \* concurrent drop: where each thread is
    tmp               \* concurrent drop: the count each thread's fetch_sub saw

vars == <<overflow_checks, bufs, arcs, released, mem, last, pc, tmp>>

\* ptr.wrapping_add(n)
wrapping_add(p, n) == (p + n) % UsizeMod

\* a + b on usize: panics when overflow checks are on, wraps otherwise
usize_add(a, b) ==
    IF a = OVERFLOW \/ b = OVERFLOW THEN OVERFLOW
    ELSE IF a + b > UsizeMax
         THEN (IF overflow_checks THEN OVERFLOW ELSE (a + b) % UsizeMod)
         ELSE a + b

\* a - b on usize: panics when overflow checks are on, wraps otherwise
usize_sub(a, b) ==
    IF a = OVERFLOW \/ b = OVERFLOW THEN OVERFLOW
    ELSE IF a < b
         THEN (IF overflow_checks THEN OVERFLOW ELSE (a - b) + UsizeMod)
         ELSE a - b

\* ------------------------------------------------------------- records
NoBuf == [live |-> FALSE, data_ptr |-> 0, capacity |-> 0, limit |-> 0, position |-> 0, destructor |-> 0]

\* HBuf { data_ptr, capacity, limit, position, destructor }
HBuf(p, c, l, pos, d) == [live |-> TRUE, data_ptr |-> p, capacity |-> c, limit |-> l, position |-> pos, destructor |-> d]

\* HBufDestructorInfo: tag "Layout" (a = size, b = align),
\* "Destructor" (a = the function), "DynDestructor" (a = the object)
Layout_bug(size, align) == [tag |-> "Layout", a |-> size, b |-> 1]
Layout(size, align) == [tag |-> "Layout", a |-> size, b |-> align]
Destructor(f) == [tag |-> "Destructor", a |-> f, b |-> 0]
DynDestructor(o) == [tag |-> "DynDestructor", a |-> o, b |-> 0]
NoInfo == [tag |-> "None", a |-> 0, b |-> 0]

\* an Arc slot never used / an Arc whose value is None
\* (region_base, region_size: the memory the entry stands for, kept for the
\* properties only; the code never reads them)
NoArc == [created |-> FALSE, strong |-> 0, some |-> FALSE, data_ptr |-> 0, capacity |-> 0, destructor_info |-> NoInfo, region_base |-> 0, region_size |-> 0]

\* Arc::new(None), for the region [p, p + c)
ArcNone(p, c) == [created |-> TRUE, strong |-> 1, some |-> FALSE, data_ptr |-> 0, capacity |-> 0, destructor_info |-> NoInfo, region_base |-> p, region_size |-> c]

\* Arc::new(Some(HBufDestructor::new(data_ptr, capacity, destructor_info)))
HBufDestructor_new(p, c, info) == [created |-> TRUE, strong |-> 1, some |-> TRUE, data_ptr |-> p, capacity |-> c, destructor_info |-> info, region_base |-> p, region_size |-> c]

\* the result of an operation
Ret(tag, val) == [tag |-> tag, val |-> val]
NoOut == <<>>

\* the record of the last operation: its name, the instance it acted on, its
\* arguments x and y, what it returned, the caller's buffer (the bytes written
\* from it or read into it), the instance it created (0: none), and the
\* instance's fields and the memory before the call
Op(name, h, x, y, ret, out, new, pre) == [op |-> name, h |-> h, x |-> x, y |-> y, ret |-> ret, out |-> out, new |-> new, pre |-> pre, premem |-> mem]

\* the address the allocator (or the caller of from_raw_parts) supplies for
\* the a-th region; regions are 4 bytes apart and aligned to 4
RegionBase(a) == 4 * a

\* ------------------------------------------------------------- slots
HasFreeHandle == {h \in Handles : ~bufs[h].live} # {}
FreeHandle == CHOOSE h \in Handles : ~bufs[h].live /\ \A g \in Handles : g < h => bufs[g].live
HasFreeArc == {a \in ArcIds : ~arcs[a].created} # {}
FreeArc == CHOOSE a \in ArcIds : ~arcs[a].created /\ \A b \in ArcIds : b < a => arcs[b].created

\* ------------------------------------------------------------- Arc
\* Arc::strong_count
Arc_strong_count(a) == arcs[a].strong

\* Arc::clone: one more strong reference to the same entry
Arc_clone_bug(a) == arcs
Arc_clone(a) == [arcs EXCEPT ![a].strong = @ + 1]

\* Arc::drop: fetch_sub(1) returned 1, so this was the last reference
Arc_drop_is_last_bug(a) == TRUE
Arc_drop_is_last(a) == Arc_strong_count(a) = 1

\* Arc::drop: one strong reference less
Arc_drop_bug(a) == arcs
Arc_drop(a) == [arcs EXCEPT ![a].strong = @ - 1]

\* impl Drop for HBufDestructor: the release action that runs, as the event
\* it leaves; h is the instance whose drop runs it
HBufDestructor_drop_bug(a, h) == [arc |-> a, info |-> arcs[a].destructor_info, ptr |-> bufs[h].data_ptr, size |-> bufs[h].capacity, by |-> h]
HBufDestructor_drop(a, h) ==
    LET d == arcs[a] IN
    IF d.destructor_info.tag = "Layout"
    THEN [arc |-> a, info |-> d.destructor_info, ptr |-> d.data_ptr, size |-> d.destructor_info.a, by |-> h]
    ELSE [arc |-> a, info |-> d.destructor_info, ptr |-> d.data_ptr, size |-> d.capacity, by |-> h]

\* dropping the Arc<Option<HBufDestructor>> field of instance h: the events
\* appended to released
Option_drop_none_bug(a, h) == IF Arc_drop_is_last(a) THEN <<HBufDestructor_drop(a, h)>> ELSE <<>>
Option_drop_bug(a, h) == IF arcs[a].some THEN <<HBufDestructor_drop(a, h)>> ELSE <<>>
Option_drop(a, h) ==
    IF Arc_drop_is_last(a) /\ arcs[a].some THEN <<HBufDestructor_drop(a, h)>> ELSE <<>>

\* ------------------------------------------------------------- constructors
\* what an operation on the HBuf instances leaves alone
NoThreads == UNCHANGED <<overflow_checks, pc, tmp>>

\* HBuf::from_raw_parts(data, size): no destructor, Arc::new(None)
from_raw_parts(size) ==
    /\ HasFreeHandle /\ HasFreeArc
    /\ LET h == FreeHandle
           a == FreeArc
           data == RegionBase(a)
       IN /\ bufs' = [bufs EXCEPT ![h] = HBuf(data, size, size, 0, a)]
          /\ arcs' = [arcs EXCEPT ![a] = ArcNone(data, size)]
          /\ last' = Op("from_raw_parts", h, size, 0, Ret("Ok", 0), NoOut, h, NoBuf)
    /\ UNCHANGED <<released, mem>>
    /\ NoThreads

\* HBuf::from_raw_parts_with_destructor(data, size, destructor)
from_raw_parts_with_destructor(size, f) ==
    /\ HasFreeHandle /\ HasFreeArc
    /\ LET h == FreeHandle
           a == FreeArc
           data == RegionBase(a)
       IN /\ bufs' = [bufs EXCEPT ![h] = HBuf(data, size, size, 0, a)]
          /\ arcs' = [arcs EXCEPT ![a] = HBufDestructor_new(data, size, Destructor(f))]
          /\ last' = Op("from_raw_parts_with_destructor", h, size, f, Ret("Ok", 0), NoOut, h, NoBuf)
    /\ UNCHANGED <<released, mem>>
    /\ NoThreads

\* HBuf::from_raw_parts_with_dyn_destructor(data, size, Box<dyn DynDestructor>)
from_raw_parts_with_dyn_destructor(size, o) ==
    /\ HasFreeHandle /\ HasFreeArc
    /\ LET h == FreeHandle
           a == FreeArc
           data == RegionBase(a)
       IN /\ bufs' = [bufs EXCEPT ![h] = HBuf(data, size, size, 0, a)]
          /\ arcs' = [arcs EXCEPT ![a] = HBufDestructor_new(data, size, DynDestructor(o))]
          /\ last' = Op("from_raw_parts_with_dyn_destructor", h, size, o, Ret("Ok", 0), NoOut, h, NoBuf)
    /\ UNCHANGED <<released, mem>>
    /\ NoThreads

\* Layout::from_size_align(size, align).is_ok(): align a power of two and
\* size, rounded up to align, at most isize::MAX
IsPowerOfTwo(n) == \E k \in 0 .. Bits : n = Pow2(k)
Layout_from_size_align(size, align) ==
    IsPowerOfTwo(align) /\ size <= (UsizeMod \div 2) - align

\* std::alloc::alloc(layout), which a constructor reaches with a valid
\* layout only: the allocator may fail at any time (null) and fails when no
\* region is left; otherwise it returns the next region, which is aligned to 4
alloc_is_null(size, alignment) ==
    IF size = 0 \/ alignment = 0 \/ ~Layout_from_size_align(size, alignment) \/ ~HasFreeArc
    THEN {TRUE}
    ELSE BOOLEAN

\* buf.fill(0): DerefMut gives the limit bytes at data_ptr
fill_bug(m, b, v) == m
fill(m, b, v) ==
    [x \in Usize |-> IF \E i \in 1 .. b.limit : wrapping_add(b.data_ptr, i - 1) = x THEN v ELSE m[x]]

\* the end of an allocating constructor: with ret "Ok" the HBuf and its
\* Arc<Option<HBufDestructor>> are built (zeroed: and filled with 0), with any
\* other ret nothing is
Constructed(name, size, alignment, ret, zeroed) ==
    /\ LET h == FreeHandle
           a == FreeArc
           data == RegionBase(a)
           b == HBuf(data, size, size, 0, a)
       IN IF ret.tag = "Ok"
          THEN /\ bufs' = [bufs EXCEPT ![h] = b]
               /\ arcs' = [arcs EXCEPT ![a] = HBufDestructor_new(data, size, Layout(size, alignment))]
               /\ mem' = IF zeroed THEN fill(mem, b, 0) ELSE mem
               /\ last' = Op(name, h, size, alignment, ret, NoOut, h, NoBuf)
          ELSE /\ last' = Op(name, 0, size, alignment, ret, NoOut, 0, NoBuf)
               /\ UNCHANGED <<bufs, arcs, mem>>
    /\ UNCHANGED released
    /\ NoThreads

\* HBuf::allocate_aligned(size, alignment): what it comes to when alloc
\* returned null (data_null) or a pointer
allocate_aligned_result_bug(size, alignment, data_null) == IF size = 0 \/ data_null THEN Ret("Panic", 0) ELSE Ret("Ok", 0)
allocate_aligned_result(size, alignment, data_null) ==
    IF size = 0 THEN Ret("Panic", 0)
    ELSE IF alignment = 0 THEN Ret("Panic", 0)
    ELSE IF ~Layout_from_size_align(size, alignment) THEN Ret("Panic", 0)
    ELSE IF data_null THEN Ret("Abort", 0)
    ELSE Ret("Ok", 0)

\* HBuf::try_allocate_aligned(size, alignment): what it comes to when alloc
\* returned null or the pointer data (a misaligned one is deallocated again)
try_allocate_aligned_result(size, alignment, data_null, data) ==
    IF size = 0 \/ alignment = 0 THEN Ret("Err_LayoutError", 0)
    ELSE IF ~Layout_from_size_align(size, alignment) THEN Ret("Err_LayoutError", 0)
    ELSE IF data_null THEN Ret("Err_OutOfMemory", 0)
    ELSE IF ~(data % alignment = 0) THEN Ret("Err_LayoutError", 0)
    ELSE Ret("Ok", 0)

\* HBuf::allocate_aligned(size, alignment)
allocate_aligned(size, alignment) ==
    /\ HasFreeHandle
    /\ \E data_null \in alloc_is_null(size, alignment) :
          Constructed("allocate_aligned", size, alignment, allocate_aligned_result(size, alignment, data_null), FALSE)

\* HBuf::allocate_aligned_zeroed(size, alignment)
allocate_aligned_zeroed(size, alignment) ==
    /\ HasFreeHandle
    /\ \E data_null \in alloc_is_null(size, alignment) :
          Constructed("allocate_aligned_zeroed", size, alignment, allocate_aligned_result(size, alignment, data_null), TRUE)

\* HBuf::try_allocate_aligned(size, alignment)
try_allocate_aligned(size, alignment) ==
    /\ HasFreeHandle
    /\ \E data_null \in alloc_is_null(size, alignment) :
          Constructed("try_allocate_aligned", size, alignment, try_allocate_aligned_result(size, alignment, data_null, IF data_null THEN 0 ELSE RegionBase(FreeArc)), FALSE)

\* HBuf::try_allocate_aligned_zeroed(size, alignment)
try_allocate_aligned_zeroed(size, alignment) ==
    /\ HasFreeHandle
    /\ \E data_null \in alloc_is_null(size, alignment) :
          Constructed("try_allocate_aligned_zeroed", size, alignment, try_allocate_aligned_result(size, alignment, data_null, IF data_null THEN 0 ELSE RegionBase(FreeArc)), TRUE)

\* HBuf::allocate_zeroed(size), try_allocate(size), try_allocate_zeroed(size)
allocate_zeroed(size) == allocate_aligned_zeroed(size, 1)
try_allocate(size) == try_allocate_aligned(size, 1)
try_allocate_zeroed(size) == try_allocate_aligned_zeroed(size, 1)

\* HBuf::allocate(size)
allocate(size) == allocate_aligned(size, 1)

\* ------------------------------------------------------------- clone, split, drop
\* impl Clone for HBuf
clone_bug(h) ==
    /\ bufs[h].live /\ HasFreeHandle
    /\ bufs' = [bufs EXCEPT ![FreeHandle] = HBuf(bufs[h].data_ptr, bufs[h].capacity, bufs[h].capacity, 0, bufs[h].destructor)]
    /\ arcs' = Arc_clone(bufs[h].destructor)
    /\ last' = Op("clone", h, 0, 0, Ret("Ok", 0), NoOut, FreeHandle, bufs[h])
    /\ UNCHANGED <<released, mem>>
    /\ NoThreads
clone(h) ==
    /\ bufs[h].live /\ HasFreeHandle
    /\ LET b == bufs[h]
           n == FreeHandle
       IN /\ bufs' = [bufs EXCEPT ![n] = HBuf(b.data_ptr, b.capacity, b.limit, b.position, b.destructor)]
          /\ arcs' = Arc_clone(b.destructor)
          /\ last' = Op("clone", h, 0, 0, Ret("Ok", 0), NoOut, n, b)
    /\ UNCHANGED <<released, mem>>
    /\ NoThreads

\* the test of split and try_split: off+length > self.capacity, as
\* "Overflow" (the addition panicked), "Fail" or "Pass"
split_check(b, off, length) ==
    LET sum == usize_add(off, length) IN
    IF sum = OVERFLOW THEN "Overflow"
    ELSE IF sum > b.capacity THEN "Fail" ELSE "Pass"

\* the HBuf that split and try_split build
split_new_bug(b, off, length) == HBuf(wrapping_add(b.data_ptr, off), length, Min(length, b.limit), 0, b.destructor)
split_new(b, off, length) == HBuf(wrapping_add(b.data_ptr, off), length, length, 0, b.destructor)

\* HBuf::split(off, length)
split(h, off, length) ==
    /\ bufs[h].live
    /\ split_check(bufs[h], off, length) = "Pass" => HasFreeHandle
    /\ LET b == bufs[h]
           n == FreeHandle
       IN IF split_check(b, off, length) = "Pass"
          THEN /\ bufs' = [bufs EXCEPT ![n] = split_new(b, off, length)]
               /\ arcs' = Arc_clone(b.destructor)
               /\ last' = Op("split", h, off, length, Ret("Ok", 0), NoOut, n, b)
          ELSE /\ last' = Op("split", h, off, length, Ret("Panic", 0), NoOut, 0, b)
               /\ UNCHANGED <<bufs, arcs>>
    /\ UNCHANGED <<released, mem>>
    /\ NoThreads

\* HBuf::try_split(off, length)
try_split(h, off, length) ==
    /\ bufs[h].live
    /\ split_check(bufs[h], off, length) = "Pass" => HasFreeHandle
    /\ LET b == bufs[h]
           n == FreeHandle
           c == split_check(b, off, length)
       IN IF c = "Pass"
          THEN /\ bufs' = [bufs EXCEPT ![n] = split_new(b, off, length)]
               /\ arcs' = Arc_clone(b.destructor)
               /\ last' = Op("try_split", h, off, length, Ret("Some", 0), NoOut, n, b)
          ELSE /\ last' = Op("try_split", h, off, length, Ret(IF c = "Overflow" THEN "Panic" ELSE "None", 0), NoOut, 0, b)
               /\ UNCHANGED <<bufs, arcs>>
    /\ UNCHANGED <<released, mem>>
    /\ NoThreads

\* drop(HBuf): the fields are dropped, so the Arc loses one reference and
\* the last one drops the Option<HBufDestructor>
drop(h) ==
    /\ bufs[h].live
    /\ LET b == bufs[h]
           a == b.destructor
       IN /\ bufs' = [bufs EXCEPT ![h] = NoBuf]
          /\ arcs' = Arc_drop(a)
          /\ released' = released \o Option_drop(a, h)
          /\ last' = Op("drop", h, 0, 0, Ret("Ok", 0), NoOut, 0, b)
    /\ UNCHANGED mem
    /\ NoThreads

\* HBuf::ref_count
ref_count(h) == Arc_strong_count(bufs[h].destructor)

\* HBuf::has_destructor: self.destructor.is_none()
has_destructor(h) == ~arcs[bufs[h].destructor].some

\* ------------------------------------------------------------- window
\* an operation of one instance: the others, the entries and the release log
\* stay as they are
Window_bug(h, b, name, x, y, ret) ==
    /\ bufs' = [g \in Handles |-> IF bufs[g].live /\ bufs[g].destructor = bufs[h].destructor THEN [b EXCEPT !.data_ptr = bufs[g].data_ptr, !.capacity = bufs[g].capacity] ELSE bufs[g]]
    /\ last' = Op(name, h, x, y, ret, NoOut, 0, bufs[h])
    /\ UNCHANGED <<arcs, released, mem>>
    /\ NoThreads
Window(h, b, name, x, y, ret) ==
    /\ bufs' = [bufs EXCEPT ![h] = b]
    /\ last' = Op(name, h, x, y, ret, NoOut, 0, bufs[h])
    /\ UNCHANGED <<arcs, released, mem>>
    /\ NoThreads

\* the fields after set_limit / try_set_limit accepted new_limit
with_limit_bug(b, new_limit) == [b EXCEPT !.limit = new_limit]
with_limit(b, new_limit) ==
    [b EXCEPT !.limit = new_limit, !.position = IF b.position > new_limit THEN new_limit ELSE b.position]

\* HBuf::set_limit(new_limit)
set_limit(h, new_limit) ==
    /\ bufs[h].live
    /\ IF new_limit > bufs[h].capacity
       THEN Window(h, bufs[h], "set_limit", new_limit, 0, Ret("Panic", 0))
       ELSE Window(h, with_limit(bufs[h], new_limit), "set_limit", new_limit, 0, Ret("Ok", 0))

\* HBuf::try_set_limit(new_limit)
try_set_limit(h, new_limit) ==
    /\ bufs[h].live
    /\ IF new_limit > bufs[h].capacity
       THEN Window(h, bufs[h], "try_set_limit", new_limit, 0, Ret("False", 0))
       ELSE Window(h, with_limit(bufs[h], new_limit), "try_set_limit", new_limit, 0, Ret("True", 0))

\* HBuf::set_position(new_position)
set_position(h, new_position) ==
    /\ bufs[h].live
    /\ IF new_position > bufs[h].limit
       THEN Window(h, bufs[h], "set_position", new_position, 0, Ret("Panic", 0))
       ELSE Window(h, [bufs[h] EXCEPT !.position = new_position], "set_position", new_position, 0, Ret("Ok", 0))

\* HBuf::try_set_position(new_position)
try_set_position_bug(h, new_position) == bufs[h].live /\ Window(h, [bufs[h] EXCEPT !.position = Min(new_position, bufs[h].limit)], "try_set_position", new_position, 0, Ret("True", 0))
try_set_position(h, new_position) ==
    /\ bufs[h].live
    /\ IF new_position > bufs[h].limit
       THEN Window(h, bufs[h], "try_set_position", new_position, 0, Ret("False", 0))
       ELSE Window(h, [bufs[h] EXCEPT !.position = new_position], "try_set_position", new_position, 0, Ret("True", 0))

\* HBuf::flip
flip_bug(h) == bufs[h].live /\ Window(h, [bufs[h] EXCEPT !.limit = bufs[h].position], "flip", 0, 0, Ret("Ok", 0))
flip(h) ==
    /\ bufs[h].live
    /\ Window(h, [bufs[h] EXCEPT !.limit = bufs[h].position, !.position = 0], "flip", 0, 0, Ret("Ok", 0))

\* HBuf::reset
reset_bug(h) == bufs[h].live /\ Window(h, [bufs[h] EXCEPT !.position = 0], "reset", 0, 0, Ret("Ok", 0))
reset(h) ==
    /\ bufs[h].live
    /\ Window(h, [bufs[h] EXCEPT !.limit = bufs[h].capacity, !.position = 0], "reset", 0, 0, Ret("Ok", 0))

\* HBuf::remaining: self.limit - self.position
remaining(b) == usize_sub(b.limit, b.position)

\* ------------------------------------------------------------- memory
\* std::ptr::copy into memory: the bytes land at p, p+1, ...
MemWrite(m, p, bytes) ==
    [x \in Usize |-> IF \E i \in 1 .. Len(bytes) : wrapping_add(p, i - 1) = x
                     THEN bytes[CHOOSE i \in 1 .. Len(bytes) : wrapping_add(p, i - 1) = x]
                     ELSE m[x]]

\* std::ptr::copy out of memory: the n bytes at p, p+1, ...
MemRead_bug(m, p, n) == [i \in 1 .. n |-> m[wrapping_add(p, n - i)]]
MemRead(m, p, n) == [i \in 1 .. n |-> m[wrapping_add(p, i - 1)]]

\* ------------------------------------------------------------- Write, Read
\* an operation of one instance that may write memory
Stream(h, b, m, name, x, ret, out) ==
    /\ bufs' = [bufs EXCEPT ![h] = b]
    /\ mem' = m
    /\ last' = Op(name, h, x, 0, ret, out, 0, bufs[h])
    /\ UNCHANGED <<arcs, released>>
    /\ NoThreads

\* the to_copy of write and read: buf.len().min(self.position-self.limit)
to_copy(b, len) ==
    LET d == usize_sub(b.position, b.limit) IN
    IF d = OVERFLOW THEN OVERFLOW ELSE Min(len, d)

\* impl Write for HBuf: write(buf)
write(h, buf) ==
    /\ bufs[h].live
    /\ LET b == bufs[h]
           n == to_copy(b, Len(buf))
           np == usize_add(b.position, n)
       IN IF n = OVERFLOW \/ (n # 0 /\ np = OVERFLOW)
          THEN Stream(h, b, mem, "write", Len(buf), Ret("Panic", 0), buf)
          ELSE IF n = 0
               THEN Stream(h, b, mem, "write", Len(buf), Ret("Ok", 0), buf)
               ELSE Stream(h, [b EXCEPT !.position = np], mem, "write", Len(buf), Ret("Ok", n), buf)

\* the test of write_all and read_exact: self.limit-self.position < buf.len(),
\* as "Overflow" (the subtraction panicked), "Eof" or "Pass"
exact_check(b, len) ==
    LET d == remaining(b) IN
    IF d = OVERFLOW THEN "Overflow"
    ELSE IF d < len THEN "Eof" ELSE "Pass"

\* impl Write for HBuf: write_all(buf)
write_all(h, buf) ==
    /\ bufs[h].live
    /\ LET b == bufs[h]
           c == exact_check(b, Len(buf))
           np == usize_add(b.position, Len(buf))
           m == MemWrite(mem, wrapping_add(b.data_ptr, b.position), buf)
       IN IF Len(buf) = 0
          THEN Stream(h, b, mem, "write_all", 0, Ret("Ok", 0), buf)
          ELSE IF c = "Overflow"
               THEN Stream(h, b, mem, "write_all", Len(buf), Ret("Panic", 0), buf)
               ELSE IF c = "Eof"
                    THEN Stream(h, b, mem, "write_all", Len(buf), Ret("Err_UnexpectedEof", 0), buf)
                    ELSE IF np = OVERFLOW
                         THEN Stream(h, b, m, "write_all", Len(buf), Ret("Panic", 0), buf)
                         ELSE Stream(h, [b EXCEPT !.position = np], m, "write_all", Len(buf), Ret("Ok", 0), buf)

\* impl Read for HBuf: read(buf), buf of length len
read(h, len) ==
    /\ bufs[h].live
    /\ LET b == bufs[h]
           n == to_copy(b, len)
           np == usize_add(b.position, n)
           got == MemRead(mem, wrapping_add(b.data_ptr, b.position), n)
       IN IF n = OVERFLOW \/ (n # 0 /\ np = OVERFLOW)
          THEN Stream(h, b, mem, "read", len, Ret("Panic", 0), NoOut)
          ELSE IF n = 0
               THEN Stream(h, b, mem, "read", len, Ret("Ok", 0), NoOut)
               ELSE Stream(h, [b EXCEPT !.position = np], mem, "read", len, Ret("Ok", n), got)

\* impl Read for HBuf: read_exact(buf), buf of length len
read_exact(h, len) ==
    /\ bufs[h].live
    /\ LET b == bufs[h]
           c == exact_check(b, len)
           np == usize_add(b.position, len)
           got == MemRead(mem, wrapping_add(b.data_ptr, b.position), len)
       IN IF len = 0
          THEN Stream(h, b, mem, "read_exact", 0, Ret("Ok", 0), NoOut)
          ELSE IF c = "Overflow"
               THEN Stream(h, b, mem, "read_exact", len, Ret("Panic", 0), NoOut)
               ELSE IF c = "Eof"
                    THEN Stream(h, b, mem, "read_exact", len, Ret("Err_UnexpectedEof", 0), NoOut)
                    ELSE IF np = OVERFLOW
                         THEN Stream(h, b, mem, "read_exact", len, Ret("Panic", 0), got)
                         ELSE Stream(h, [b EXCEPT !.position = np], mem, "read_exact", len, Ret("Ok", 0), got)

\* isize::MAX: a slice or a Vec of more bytes cannot exist
IsizeMax == (UsizeMod \div 2) - 1

\* impl Read for HBuf: read_to_end(vec); a to_copy above isize::MAX makes
\* slice::from_raw_parts undefined: the build goes on to the capacity
\* overflow panic of the Vec or faults
read_to_end(h) ==
    /\ bufs[h].live
    /\ LET b == bufs[h]
           n == usize_sub(b.position, b.limit)
       IN IF n = OVERFLOW
          THEN Stream(h, b, mem, "read_to_end", 0, Ret("Panic", 0), NoOut)
          ELSE IF n > IsizeMax
               THEN \E tag \in {"Panic", "Fault"} : Stream(h, b, mem, "read_to_end", 0, Ret(tag, 0), NoOut)
               ELSE IF n = 0
                    THEN Stream(h, b, mem, "read_to_end", 0, Ret("Ok", 0), NoOut)
                    ELSE Stream(h, [b EXCEPT !.position = b.limit], mem, "read_to_end", 0, Ret("Ok", n), MemRead(mem, wrapping_add(b.data_ptr, b.position), n))

\* ------------------------------------------------------------- Seek
\* i64 has the width of the machine word; I64_OVERFLOW is the value of an
\* i64 expression that panicked
I64Max == (UsizeMod \div 2) - 1
I64Min == 0 - (UsizeMod \div 2)
I64 == I64Min .. I64Max
I64_OVERFLOW == UsizeMod

\* self.position as i64, pos as u64
as_i64(u) == IF u > I64Max THEN u - UsizeMod ELSE u
as_u64(i) == IF i < 0 THEN i + UsizeMod ELSE i

\* a + b on i64
i64_add(a, b) ==
    IF a + b > I64Max
    THEN (IF overflow_checks THEN I64_OVERFLOW ELSE a + b - UsizeMod)
    ELSE IF a + b < I64Min
         THEN (IF overflow_checks THEN I64_OVERFLOW ELSE a + b + UsizeMod)
         ELSE a + b

\* from.abs() on i64
i64_abs(a) ==
    IF a = I64Min THEN (IF overflow_checks THEN I64_OVERFLOW ELSE I64Min)
    ELSE IF a < 0 THEN 0 - a ELSE a

\* HBuf::seek_start(from): the new fields, or NoBuf for false
seek_start(b, from) ==
    IF from > b.limit THEN NoBuf ELSE [b EXCEPT !.position = from]

\* HBuf::seek_end(from): the new fields, NoBuf for false; the caller sees the
\* panic of abs()
seek_end_bug(b, from) == IF from > 0 THEN NoBuf ELSE [b EXCEPT !.position = as_u64(i64_abs(from))]
seek_end(b, from) ==
    IF from > 0 THEN NoBuf
    ELSE LET f == as_u64(i64_abs(from)) IN
         IF f > b.limit THEN NoBuf ELSE [b EXCEPT !.position = b.limit - f]

\* HBuf::seek_cur(from)
seek_cur(b, from) ==
    LET pos == i64_add(as_i64(b.position), from) IN
    IF pos < 0 THEN NoBuf ELSE seek_start(b, as_u64(pos))

\* impl Seek for HBuf: seek(pos), whence one of "Start", "End", "Current"
seek(h, whence, p) ==
    /\ bufs[h].live
    /\ LET b == bufs[h]
           panics == \/ whence = "End" /\ p <= 0 /\ i64_abs(p) = I64_OVERFLOW
                     \/ whence = "Current" /\ i64_add(as_i64(b.position), p) = I64_OVERFLOW
           nb == IF whence = "Start" THEN seek_start(b, p)
                 ELSE IF whence = "End" THEN seek_end(b, p)
                 ELSE seek_cur(b, p)
           name == IF whence = "Start" THEN "seek_start"
                   ELSE IF whence = "End" THEN "seek_end" ELSE "seek_cur"
       IN IF panics
          THEN Window(h, b, name, p, 0, Ret("Panic", 0))
          ELSE IF nb.live
               THEN Window(h, nb, name, p, 0, Ret("Ok", nb.position))
               ELSE Window(h, b, name, p, 0, Ret("Err_UnexpectedEof", 0))

\* ------------------------------------------------------------- indexed access
\* the test of get_T / set_T: index + (size_of::<T>() - 1) >= self.limit, as
\* "Overflow" (the addition panicked), "OutOfBounds" or "Pass"
bounds_known(b, index, sz) ==
    LET t == usize_add(index, sz - 1) IN
    IF t = OVERFLOW THEN "Overflow"
    ELSE IF t >= b.limit THEN "OutOfBounds" ELSE "Pass"

\* the test of get / set and of the atomic accessors:
\* index+sz-1 >= self.limit
bounds_generic(b, index, sz) ==
    LET t == usize_sub(usize_add(index, sz), 1) IN
    IF t = OVERFLOW THEN "Overflow"
    ELSE IF t >= b.limit THEN "OutOfBounds" ELSE "Pass"

\* a read access of sz bytes at index that passed or failed its test c
Load(h, name, index, sz, c) ==
    LET b == bufs[h] IN
    IF c = "Pass"
    THEN Stream(h, b, mem, name, index, Ret("Ok", sz), MemRead(mem, wrapping_add(b.data_ptr, index), sz))
    ELSE Stream(h, b, mem, name, index, Ret(IF c = "Fault" THEN "Fault" ELSE "Panic", sz), NoOut)

\* a write access of the bytes value at index that passed or failed its test c
Store(h, name, index, value, c) ==
    LET b == bufs[h] IN
    IF c = "Pass"
    THEN Stream(h, b, MemWrite(mem, wrapping_add(b.data_ptr, index), value), name, index, Ret("Ok", Len(value)), value)
    ELSE Stream(h, b, mem, name, index, Ret(IF c = "Fault" THEN "Fault" ELSE "Panic", Len(value)), value)

\* impl Index<usize> for HBuf: buf[index]
index(h, i) ==
    /\ bufs[h].live
    /\ Load(h, "index", i, 1, IF i >= bufs[h].limit THEN "OutOfBounds" ELSE "Pass")

\* impl IndexMut<usize> for HBuf: buf[index] = v
index_mut(h, i, v) ==
    /\ bufs[h].live
    /\ Store(h, "index_mut", i, <<v>>, IF i >= bufs[h].limit THEN "OutOfBounds" ELSE "Pass")

\* known_type!: get_T(index), T of sz bytes
get_T(h, i, sz) ==
    /\ bufs[h].live
    /\ Load(h, "get_T", i, sz, bounds_known(bufs[h], i, sz))

\* known_type!: set_T(index, value), value given as its bytes
set_T(h, i, value) ==
    /\ bufs[h].live
    /\ Store(h, "set_T", i, value, bounds_known(bufs[h], i, Len(value)))

\* HBuf::get::<T>(index), T of sz bytes
get(h, i, sz) ==
    /\ bufs[h].live
    /\ Load(h, "get", i, sz, bounds_generic(bufs[h], i, sz))

\* HBuf::set::<T>(index, value)
set(h, i, value) ==
    /\ bufs[h].live
    /\ Store(h, "set", i, value, bounds_generic(bufs[h], i, Len(value)))

\* ptr.align_offset(align) == 0
IsAligned(ptr, align) == ptr % align = 0

\* the debug_assert_eq! of the atomic accessors: it panics in a debug build;
\* in a release build a misaligned atomic access is undefined and either
\* goes through or faults
AtomicOutcomes(b, i, sz, c) ==
    IF c # "Pass" THEN {c}
    ELSE IF IsAligned(wrapping_add(b.data_ptr, i), sz) THEN {"Pass"}
    ELSE IF overflow_checks THEN {"Misaligned"} ELSE {"Pass", "Fault"}

\* atomic_type!: load(index, ordering), an atomic of sz bytes
atomic_load(h, i, sz) ==
    /\ bufs[h].live
    /\ \E c \in AtomicOutcomes(bufs[h], i, sz, bounds_generic(bufs[h], i, sz)) : Load(h, "atomic_load", i, sz, c)

\* atomic_type!: store(index, value, ordering)
atomic_store(h, i, value) ==
    /\ bufs[h].live
    /\ \E c \in AtomicOutcomes(bufs[h], i, Len(value), bounds_generic(bufs[h], i, Len(value))) : Store(h, "atomic_store", i, value, c)

\* ------------------------------------------------------------- concurrent clone and drop
\* Arc::drop, as the threads run it: strong.fetch_sub(1) is one atomic step
\* that returns the count it replaced; the thread that got 1 then drops the
\* Option<HBufDestructor>
NoFetch == [old |-> 0, arc |-> 0, h |-> 0]

\* fetch_sub(1, Release) != 1 { return; }
Arc_fetch_sub_was_last_bug(old) == old <= 2
Arc_fetch_sub_was_last(old) == old = 1

\* a thread clones an instance it can reach (fetch_add is one atomic step)
thread_clone(t, h) ==
    /\ pc[t] = "idle"
    /\ clone(h)

\* a thread starts to drop an instance: the HBuf is gone, the count is
\* decremented and the thread holds the count that fetch_sub returned
thread_drop_fetch_sub(t, h) ==
    /\ pc[t] = "idle"
    /\ bufs[h].live
    /\ LET b == bufs[h]
           a == b.destructor
       IN /\ bufs' = [bufs EXCEPT ![h] = NoBuf]
          /\ arcs' = Arc_drop(a)
          /\ tmp' = [tmp EXCEPT ![t] = [old |-> Arc_strong_count(a), arc |-> a, h |-> h]]
          /\ pc' = [pc EXCEPT ![t] = "fetch_sub_done"]
          /\ last' = Op("drop_fetch_sub", h, t, 0, Ret("Ok", 0), NoOut, 0, b)
    /\ UNCHANGED <<overflow_checks, released, mem>>

\* the thread acts on the count it got: 1 means it was the last reference
\* and it runs the Drop of the HBufDestructor, anything else means return
thread_drop_finish(t) ==
    /\ pc[t] = "fetch_sub_done"
    /\ LET a == tmp[t].arc
       IN /\ released' = released \o (IF Arc_fetch_sub_was_last(tmp[t].old) /\ arcs[a].some
                                        THEN <<HBufDestructor_drop(a, tmp[t].h)>> ELSE <<>>)
          /\ last' = Op("drop_finish", tmp[t].h, t, tmp[t].old, Ret("Ok", 0), NoOut, 0, NoBuf)
    /\ pc' = [pc EXCEPT ![t] = "idle"]
    /\ tmp' = [tmp EXCEPT ![t] = NoFetch]
    /\ UNCHANGED <<overflow_checks, bufs, arcs, mem>>

\* ------------------------------------------------------------- specification
NoOp == Op("init", 0, 0, 0, Ret("Ok", 0), NoOut, 0, NoBuf)

Init ==
    /\ overflow_checks \in BOOLEAN
    /\ bufs = [h \in Handles |-> NoBuf]
    /\ arcs = [a \in ArcIds |-> NoArc]
    /\ released = <<>>
    /\ mem = [x \in Usize |-> 0]
    /\ last = NoOp
    /\ pc = [t \in Threads |-> "idle"]
    /\ tmp = [t \in Threads |-> NoFetch]

\* the inputs of the callers of the lifetime specification: regions of the
\* largest size, two destructor functions and one destructor object, splits
\* that fit the parent and splits that do not fit a split
DestructorFns == {1, 2}
DynObjects == {3}
LifeSplits == {<<1, 1>>, <<0, 2>>}

Next ==
    \/ from_raw_parts(MaxCap)
    \/ \E f \in DestructorFns : from_raw_parts_with_destructor(MaxCap, f)
    \/ \E o \in DynObjects : from_raw_parts_with_dyn_destructor(MaxCap, o)
    \/ allocate(MaxCap)
    \/ \E h \in Handles : clone(h)
    \/ \E h \in Handles, s \in LifeSplits : split(h, s[1], s[2])
    \/ \E h \in Handles, s \in LifeSplits : try_split(h, s[1], s[2])
    \/ \E h \in Handles : drop(h)

Spec == Init /\ [][Next]_vars

\* ------------------------------------------------------------- lifetime properties
\* the live instances that share entry a, and the release actions run for it
LiveOf(a) == {h \in Handles : bufs[h].live /\ bufs[h].destructor = a}
ReleasesOf(a) == {i \in 1 .. Len(released) : released[i].arc = a}
HasDestructor(a) == arcs[a].created /\ arcs[a].some

\* C2: the release action of an entry with a destructor runs exactly once: at
\* most once ever, once when no instance is left, and inside the drop of the
\* last instance (the event is the one that drop appended)
C2_ReleaseExactlyOnce ==
    \A a \in ArcIds : HasDestructor(a) =>
        /\ Cardinality(ReleasesOf(a)) <= 1
        /\ (LiveOf(a) = {} => Cardinality(ReleasesOf(a)) = 1)
        /\ (last.op = "drop" /\ last.pre.destructor = a /\ LiveOf(a) = {}
               => /\ Len(released) > 0
                  /\ released[Len(released)].arc = a
                  /\ released[Len(released)].by = last.h)

\* the last of several instances (a split, after the original went) has just
\* been dropped and the release action ran in that drop
C2_Witness ==
    /\ last.op = "drop"
    /\ HasDestructor(last.pre.destructor)
    /\ LiveOf(last.pre.destructor) = {}
    /\ last.pre.capacity # arcs[last.pre.destructor].capacity
    /\ Cardinality(ReleasesOf(last.pre.destructor)) = 1

\* C3: no release action has run for an entry that a live instance refers to
C3_NoReleaseWhileLive ==
    \A h \in Handles : bufs[h].live => ReleasesOf(bufs[h].destructor) = {}

\* a full-size instance (the original or a clone) was just dropped, a split
\* is the only instance left, and nothing was released
C3_Witness ==
    /\ last.op = "drop"
    /\ HasDestructor(last.pre.destructor)
    /\ last.pre.capacity = arcs[last.pre.destructor].capacity
    /\ \E h \in Handles :
          /\ LiveOf(last.pre.destructor) = {h}
          /\ bufs[h].data_ptr # arcs[last.pre.destructor].data_ptr
          /\ ref_count(h) = 1
    /\ ReleasesOf(last.pre.destructor) = {}

\* C5: every release action that ran is the registered one and was given the
\* pointer and the size the entry was created with
C5_ReleaseArguments ==
    \A i \in 1 .. Len(released) :
        LET e == released[i] IN
        /\ e.info = arcs[e.arc].destructor_info
        /\ e.ptr = arcs[e.arc].region_base
        /\ e.size = arcs[e.arc].region_size

\* two entries with different destructors were released, the second one by
\* the drop of a split whose pointer and capacity are not the original ones
C5_Witness ==
    /\ Len(released) = 2
    /\ released[1].info # released[2].info
    /\ last.op = "drop"
    /\ released[2].by = last.h
    /\ last.pre.data_ptr # released[2].ptr
    /\ last.pre.capacity # released[2].size

\* C6: ref_count() of a live instance is the number of live instances that
\* share its entry
C6_RefCountIsLiveCount ==
    \A h \in Handles : bufs[h].live => ref_count(h) = Cardinality(LiveOf(bufs[h].destructor))

\* one of three instances of an entry was just dropped: the two left (one of
\* them a split) report a count of 2
C6_Witness ==
    /\ last.op = "drop"
    /\ \E h \in Handles, g \in Handles :
          /\ h # g /\ bufs[h].live /\ bufs[g].live
          /\ bufs[h].destructor = last.pre.destructor
          /\ bufs[g].destructor = last.pre.destructor
          /\ bufs[h].capacity # bufs[g].capacity
          /\ ref_count(h) = 2 /\ ref_count(g) = 2

\* ------------------------------------------------------------- concurrent drop
\* several threads clone and drop the instances of entries with a destructor
NextThreads ==
    \/ \E f \in DestructorFns : from_raw_parts_with_destructor(MaxCap, f)
    \/ \E t \in Threads, h \in Handles : thread_clone(t, h)
    \/ \E t \in Threads, h \in Handles : thread_drop_fetch_sub(t, h)
    \/ \E t \in Threads : thread_drop_finish(t)

SpecThreads == Init /\ [][NextThreads]_vars

\* the threads that are between the fetch_sub and the end of a drop of
\* entry a, and those of them that saw the count reach zero
Dropping(a) == {t \in Threads : pc[t] = "fetch_sub_done" /\ tmp[t].arc = a}
SawLast(a) == {t \in Dropping(a) : tmp[t].old = 1}

\* C4: in every interleaving at most one thread sees the count of an entry
\* reach zero, the release action runs at most once, only when no instance
\* is left, and it has run once all instances are gone and all drops returned
C4_OneThreadReleases ==
    \A a \in ArcIds : HasDestructor(a) =>
        /\ Cardinality(SawLast(a)) + Cardinality(ReleasesOf(a)) <= 1
        /\ (SawLast(a) # {} \/ ReleasesOf(a) # {} => LiveOf(a) = {})
        /\ (LiveOf(a) = {} /\ Dropping(a) = {} => Cardinality(ReleasesOf(a)) = 1)
        /\ (LiveOf(a) = {} /\ ReleasesOf(a) = {} => Cardinality(SawLast(a)) = 1)

\* two threads were inside drops of the same entry at once; the one that
\* saw 2 has returned, the one that saw 1 ran the release action
C4_Witness ==
    /\ last.op = "drop_finish"
    /\ last.y = 1
    /\ Len(released) > 0
    /\ released[Len(released)].by = last.h
    /\ \E t \in Threads : pc[t] = "fetch_sub_done" /\ tmp[t].old = 2 /\ tmp[t].arc = released[Len(released)].arc

\* ------------------------------------------------------------- one instance
\* the callers' buffers, element sizes and arguments
ExtBufs == UNION {[1 .. n -> 1 .. MaxByte] : n \in 0 .. MaxLen}
ElemSizes == {1, 2}
Values == UNION {[1 .. n -> 1 .. MaxByte] : n \in ElemSizes}
WordArgs == (0 .. MaxCap + 1) \cup {UsizeMax - 1, UsizeMax}
SeekArgs == (0 - 2 .. 2) \cup {I64Min, I64Max}
Fresh == \A a \in ArcIds : ~arcs[a].created

\* the window and the streams of one allocated buffer; the callers stop
\* streaming once the position is past the capacity
NextWindow ==
    \/ Fresh /\ \E size \in 1 .. MaxCap : allocate(size)
    \/ \E h \in Handles, n \in WordArgs : set_limit(h, n)
    \/ \E h \in Handles, n \in WordArgs : try_set_limit(h, n)
    \/ \E h \in Handles, n \in WordArgs : set_position(h, n)
    \/ \E h \in Handles, n \in WordArgs : try_set_position(h, n)
    \/ \E h \in Handles : flip(h)
    \/ \E h \in Handles : reset(h)
    \/ \E h \in Handles, p \in WordArgs : seek(h, "Start", p)
    \/ \E h \in Handles, p \in SeekArgs : seek(h, "End", p)
    \/ \E h \in Handles, p \in SeekArgs : seek(h, "Current", p)
    \/ \E h \in Handles, buf \in ExtBufs : bufs[h].position <= MaxCap /\ write(h, buf)
    \/ \E h \in Handles, buf \in ExtBufs : bufs[h].position <= MaxCap /\ write_all(h, buf)
    \/ \E h \in Handles, len \in 0 .. MaxLen : bufs[h].position <= MaxCap /\ read(h, len)
    \/ \E h \in Handles, len \in 0 .. MaxLen : bufs[h].position <= MaxCap /\ read_exact(h, len)
    \/ \E h \in Handles : bufs[h].position <= MaxCap /\ read_to_end(h)

SpecWindow == Init /\ [][NextWindow]_vars

\* the fields of one allocated buffer: limits, positions, flips, resets,
\* seeks and the write that moves the position past the limit
NextLimits ==
    \/ Fresh /\ \E size \in 1 .. MaxCap : allocate(size)
    \/ \E h \in Handles, n \in WordArgs : set_limit(h, n)
    \/ \E h \in Handles, n \in WordArgs : try_set_limit(h, n)
    \/ \E h \in Handles, n \in WordArgs : set_position(h, n)
    \/ \E h \in Handles, n \in WordArgs : try_set_position(h, n)
    \/ \E h \in Handles : flip(h)
    \/ \E h \in Handles : reset(h)
    \/ \E h \in Handles, p \in WordArgs : seek(h, "Start", p)
    \/ \E h \in Handles, p \in SeekArgs : seek(h, "End", p)
    \/ \E h \in Handles, p \in SeekArgs : seek(h, "Current", p)
    \/ \E h \in Handles, buf \in ExtBufs : bufs[h].position <= MaxCap /\ write(h, buf)

SpecLimits == Init /\ [][NextLimits]_vars

\* ------------------------------------------------------------- window properties
\* C1: for every buffer instance 0 <= position <= limit <= capacity holds in
\* every reachable state, whatever the operations and their arguments
C1_WindowOrdered ==
    \A h \in Handles : bufs[h].live =>
        /\ 0 <= bufs[h].position
        /\ bufs[h].position <= bufs[h].limit
        /\ bufs[h].limit <= bufs[h].capacity

\* C10: read_exact and write_all of N > 0 bytes fail with UnexpectedEof and
\* change nothing when fewer than N bytes remain, and otherwise transfer the
\* N bytes at [position, position + N) and advance the position by N
C10_ExactTransfer ==
    (last.op \in {"write_all", "read_exact"} /\ last.x > 0) =>
        LET b == last.pre
            n == last.x
            at == wrapping_add(b.data_ptr, b.position)
        IN IF b.limit - b.position < n
           THEN /\ last.ret.tag = "Err_UnexpectedEof"
                /\ bufs[last.h] = b
                /\ mem = last.premem
           ELSE /\ last.ret.tag = "Ok"
                /\ bufs[last.h] = [b EXCEPT !.position = b.position + n]
                /\ IF last.op = "write_all"
                   THEN mem = MemWrite(last.premem, at, last.out)
                   ELSE mem = last.premem /\ last.out = MemRead(mem, at, n)

\* ------------------------------------------------------------- split
\* offsets and lengths: inside the capacity, past it, and sums past the
\* machine word
SplitArgs == {<<0, 0>>, <<0, MaxCap>>, <<1, 1>>, <<1, MaxCap>>, <<MaxCap, 1>>, <<UsizeMax, 2>>, <<1, UsizeMax>>, <<UsizeMax, UsizeMax>>}
LimitArgs == {1, MaxCap}

\* one allocation, its clones and splits, and their limits
NextSplit ==
    \/ Fresh /\ allocate(MaxCap)
    \/ \E h \in Handles : clone(h)
    \/ \E h \in Handles, s \in SplitArgs : split(h, s[1], s[2])
    \/ \E h \in Handles, s \in SplitArgs : try_split(h, s[1], s[2])
    \/ \E h \in Handles, n \in LimitArgs : set_limit(h, n)
    \/ \E h \in Handles : reset(h)

SpecSplit == Init /\ [][NextSplit]_vars

\* C7: split and try_split succeed exactly when the mathematical sum
\* offset + length is at most the parent's capacity; otherwise split panics,
\* try_split returns None, no instance is created and the reference count
\* stays as it was
C7_SplitInRange ==
    [][last'.op \in {"split", "try_split"} =>
        IF last'.x + last'.y <= last'.pre.capacity
        THEN /\ last'.ret.tag = (IF last'.op = "split" THEN "Ok" ELSE "Some")
             /\ last'.new # 0
             /\ ~bufs[last'.new].live /\ bufs'[last'.new].live
        ELSE /\ last'.ret.tag = (IF last'.op = "split" THEN "Panic" ELSE "None")
             /\ last'.new = 0
             /\ bufs' = bufs
             /\ arcs' = arcs]_vars

\* C8: the region [data_ptr, data_ptr + capacity) of every live instance
\* lies inside the allocation its entry owns, and its limit is at most its
\* own capacity
C8_InsideAllocation ==
    \A h \in Handles : bufs[h].live =>
        LET b == bufs[h]
            a == arcs[b.destructor]
        IN /\ a.region_base <= b.data_ptr
           /\ b.data_ptr + b.capacity <= a.region_base + a.region_size
           /\ b.limit <= b.capacity

\* ------------------------------------------------------------- access
\* indices inside the buffer, past its end, and at the top of the machine
\* word
AccessArgs == (0 .. MaxCap) \cup {UsizeMax - 1, UsizeMax}

\* one allocated buffer, its limit, and the accessors
NextAccess ==
    \/ Fresh /\ allocate(MaxCap)
    \/ \E h \in Handles, n \in 0 .. MaxCap : set_limit(h, n)
    \/ \E h \in Handles, i \in AccessArgs : index(h, i)
    \/ \E h \in Handles, i \in AccessArgs, v \in 1 .. MaxByte : index_mut(h, i, v)
    \/ \E h \in Handles, i \in AccessArgs, sz \in ElemSizes : get_T(h, i, sz)
    \/ \E h \in Handles, i \in AccessArgs, v \in Values : set_T(h, i, v)
    \/ \E h \in Handles, i \in AccessArgs, sz \in ElemSizes : get(h, i, sz)
    \/ \E h \in Handles, i \in AccessArgs, v \in Values : set(h, i, v)
    \/ \E h \in Handles, i \in AccessArgs, sz \in ElemSizes : atomic_load(h, i, sz)
    \/ \E h \in Handles, i \in AccessArgs, v \in Values : atomic_store(h, i, v)

SpecAccess == Init /\ [][NextAccess]_vars

AccessOps == {"index", "index_mut", "get_T", "set_T", "get", "set", "atomic_load", "atomic_store"}

\* C9: an access of s bytes at index panics and leaves the bytes as they
\* were when the mathematical value index + s - 1 is at least the limit, and
\* otherwise reads or writes exactly the bytes [index, index + s)
C9_BoundsChecked ==
    last.op \in AccessOps =>
        LET b == last.pre
            i == last.x
            s == last.ret.val
            at == b.data_ptr + i
        IN IF i + s - 1 >= b.limit
           THEN last.ret.tag = "Panic" /\ mem = last.premem
           ELSE \/ /\ last.ret.tag \in {"Panic", "Fault"} /\ mem = last.premem
                   /\ last.op \in {"atomic_load", "atomic_store"} /\ ~IsAligned(at, s)
                \/ /\ last.ret.tag = "Ok"
                   /\ IF last.op \in {"index", "get_T", "get", "atomic_load"}
                      THEN mem = last.premem /\ last.out = MemRead(mem, at, s)
                      ELSE mem = MemWrite(last.premem, at, last.out)

\* ------------------------------------------------------------- stream properties
\* C11: read(dst) copies k = min(len(dst), limit - position) bytes from
\* [position, position + k) into dst, returns k, advances the position by k
\* and changes neither the limit nor the bytes
C11_ReadTransfers ==
    last.op = "read" =>
        LET b == last.pre
            k == Min(last.x, b.limit - b.position)
        IN /\ last.ret = Ret("Ok", k)
           /\ last.out = MemRead(last.premem, b.data_ptr + b.position, k)
           /\ bufs[last.h] = [b EXCEPT !.position = b.position + k]
           /\ mem = last.premem

\* C12: write(src) accepts k = min(len(src), limit - position) bytes, returns
\* k and advances the position by k, never past the limit
C12_WriteAccepts ==
    last.op = "write" =>
        LET b == last.pre
            k == Min(last.x, b.limit - b.position)
        IN /\ last.ret = Ret("Ok", k)
           /\ bufs[last.h] = [b EXCEPT !.position = b.position + k]
           /\ bufs[last.h].position <= bufs[last.h].limit

\* C13: the bytes that write or write_all reports as transferred are in the
\* buffer at the position they were written to
C13_WrittenBytesStored ==
    (last.op \in {"write", "write_all"} /\ last.ret.tag = "Ok") =>
        LET b == last.pre
            k == IF last.op = "write" THEN last.ret.val ELSE last.x
        IN MemRead(mem, wrapping_add(b.data_ptr, b.position), k) = SubSeq(last.out, 1, k)

\* ------------------------------------------------------------- seek properties
SeekOps == {"seek_start", "seek_end", "seek_cur"}

\* the position a seek asks for, as a mathematical integer; an End request
\* with a positive offset has none (limit + 1 stands for it)
SeekTarget(b, op, p) ==
    IF op = "seek_start" THEN p
    ELSE IF op = "seek_end" THEN (IF p > 0 THEN b.limit + 1 ELSE b.limit + p)
    ELSE b.position + p

\* C14: a seek whose target is out of range fails with UnexpectedEof and
\* leaves the position and the limit as they were
C14_SeekOutOfRange ==
    last.op \in SeekOps =>
        LET b == last.pre
            t == SeekTarget(b, last.op, last.x)
        IN (t < 0 \/ t > b.limit) =>
            /\ last.ret.tag = "Err_UnexpectedEof"
            /\ bufs[last.h] = b

C16_SetLimit ==
    last.op \in {"set_limit", "try_set_limit"} =>
        LET b == last.pre
            n == last.x
        IN IF n > b.capacity
           THEN /\ last.ret.tag = (IF last.op = "set_limit" THEN "Panic" ELSE "False")
                /\ bufs[last.h] = b
           ELSE /\ last.ret.tag = (IF last.op = "set_limit" THEN "Ok" ELSE "True")
                /\ bufs[last.h] = [b EXCEPT !.limit = n, !.position = Min(b.position, n)]
                /\ bufs[last.h].limit <= bufs[last.h].capacity

\* a limit below the position was accepted and the position came down with it
C16_Witness ==
    /\ last.op \in {"set_limit", "try_set_limit"}
    /\ last.ret.tag \in {"Ok", "True"}
    /\ last.x < last.pre.position
    /\ last.pre.position <= last.pre.limit
    /\ bufs[last.h].position = last.x

\* C17: set_position(n) / try_set_position(n) fail when n > limit (panic,
\* false) and change nothing; otherwise the position becomes n and
\* try_set_position returns true; limit and capacity never change
C17_SetPosition ==
    last.op \in {"set_position", "try_set_position"} =>
        LET b == last.pre
            n == last.x
        IN IF n > b.limit
           THEN /\ last.ret.tag = (IF last.op = "set_position" THEN "Panic" ELSE "False")
                /\ bufs[last.h] = b
           ELSE /\ last.ret.tag = (IF last.op = "set_position" THEN "Ok" ELSE "True")
                /\ bufs[last.h] = [b EXCEPT !.position = n]

\* try_set_position refused a position between the limit and the capacity
C17_Witness ==
    /\ last.op = "try_set_position"
    /\ last.ret.tag = "False"
    /\ last.pre.limit < last.x
    /\ last.x <= last.pre.capacity
    /\ bufs[last.h].position = last.pre.position

\* C18: flip sets the limit to the previous position and the position to 0
\* and leaves the capacity, the bytes, the other instances and the
\* reference counts as they were
C18_Flip ==
    [][last'.op = "flip" =>
        /\ bufs' = [bufs EXCEPT ![last'.h] = [bufs[last'.h] EXCEPT !.limit = bufs[last'.h].position, !.position = 0]]
        /\ mem' = mem
        /\ arcs' = arcs
        /\ released' = released]_vars

\* a flip after the position had moved inside the limit
C18_Witness ==
    /\ last.op = "flip"
    /\ 0 < last.pre.position
    /\ last.pre.position < last.pre.limit
    /\ bufs[last.h].limit = last.pre.position
    /\ bufs[last.h].position = 0

\* C19: reset sets limit = capacity and position = 0 from any state, so a
\* flip followed by a reset ends there whatever the state before the flip
C19_Reset ==
    last.op = "reset" =>
        /\ bufs[last.h] = [last.pre EXCEPT !.limit = last.pre.capacity, !.position = 0]
        /\ mem = last.premem

\* a reset of the window a flip leaves: position 0 and a limit below the
\* capacity
C19_Witness ==
    /\ last.op = "reset"
    /\ last.pre.position = 0
    /\ last.pre.limit < last.pre.capacity
    /\ bufs[last.h].limit = bufs[last.h].capacity
    /\ bufs[last.h].position = 0

\* ------------------------------------------------------------- split properties
\* C20: a successful split returns an instance with data_ptr = parent's
\* data_ptr + offset, capacity = limit = length and position 0 that shares
\* the parent's entry, whose count rises by one; the parent and the bytes
\* stay as they were
C20_SplitResult ==
    [][(last'.op \in {"split", "try_split"} /\ last'.ret.tag \in {"Ok", "Some"}) =>
        LET h == last'.h
            n == last'.new
            off == last'.x
            length == last'.y
            a == bufs[h].destructor
        IN /\ ~bufs[n].live
           /\ bufs' = [bufs EXCEPT ![n] = HBuf(wrapping_add(bufs[h].data_ptr, off), length, length, 0, a)]
           /\ (off + length <= bufs[h].capacity => bufs'[n].data_ptr = bufs[h].data_ptr + off)
           /\ arcs' = [arcs EXCEPT ![a].strong = arcs[a].strong + 1]
           /\ mem' = mem]_vars

\* a split at an offset of a parent whose limit had been lowered
C20_Witness ==
    /\ last.op = "split"
    /\ last.ret.tag = "Ok"
    /\ last.x > 0 /\ last.y > 0
    /\ last.pre.limit < last.pre.capacity
    /\ bufs[last.new].data_ptr = last.pre.data_ptr + last.x
    /\ bufs[last.new].limit = last.y
    /\ bufs[last.h] = last.pre
    /\ ref_count(last.new) = 2

\* ------------------------------------------------------------- aliasing
\* what buf[i] evaluates to with memory m: the byte, or nothing (a panic)
index_result(b, i, m) == IF i >= b.limit THEN NoOut ELSE <<m[wrapping_add(b.data_ptr, i)]>>

\* splits inside the parent and one whose sum passes the machine word
AliasSplits == {<<0, MaxCap>>, <<1, 1>>, <<1, MaxCap - 1>>, <<UsizeMax, 2>>}

\* one allocation, its splits, and bytes written and read through them
NextAlias ==
    \/ Fresh /\ allocate(MaxCap)
    \/ \E h \in Handles, s \in AliasSplits : split(h, s[1], s[2])
    \/ \E h \in Handles, s \in AliasSplits : try_split(h, s[1], s[2])
    \/ \E h \in Handles, i \in AccessArgs, v \in 1 .. MaxByte : index_mut(h, i, v)
    \/ \E h \in Handles, i \in AccessArgs : index(h, i)

SpecAlias == Init /\ [][NextAlias]_vars

\* C21: right after a split with (offset, length), a byte written at i <
\* length through the split is the byte read at offset + i through the
\* parent, and a byte written at offset + i through the parent is the byte
\* read at i through the split
C21_SplitAliases ==
    [][(last.op \in {"split", "try_split"} /\ last.ret.tag \in {"Ok", "Some"} /\ last'.op = "index_mut") =>
        LET parent == last.h
            child == last.new
            off == last.x
            length == last.y
            i == last'.x
        IN /\ (last'.h = child /\ i < length) =>
                  /\ last'.ret.tag = "Ok"
                  /\ index_result(bufs'[parent], off + i, mem') = last'.out
           /\ (last'.h = parent /\ off <= i /\ i < off + length) =>
                  /\ last'.ret.tag = "Ok"
                  /\ index_result(bufs'[child], i - off, mem') = last'.out]_vars

\* ------------------------------------------------------------- shared allocation
\* the arguments of the callers that share one allocation
ShareLimits == {1, MaxCap}
ShareBufs == {<<MaxByte>>}

\* the callers hold at most two instances at a time
ShareRoom == Cardinality({h \in Handles : bufs[h].live}) < 2

\* one allocation, its clones and splits, their windows and streams, and
\* their drops
NextShare ==
    \/ Fresh /\ allocate(MaxCap)
    \/ \E h \in Handles : ShareRoom /\ clone(h)
    \/ \E h \in Handles : ShareRoom /\ split(h, 1, 1)
    \/ \E h \in Handles : drop(h)
    \/ \E h \in Handles, n \in ShareLimits : set_limit(h, n)
    \/ \E h \in Handles : set_position(h, 1)
    \/ \E h \in Handles : flip(h)
    \/ \E h \in Handles : reset(h)
    \/ \E h \in Handles : seek(h, "Current", 1)
    \/ \E h \in Handles : bufs[h].position <= MaxCap /\ read(h, 1)
    \/ \E h \in Handles, buf \in ShareBufs : bufs[h].position <= MaxCap /\ write(h, buf)
    \/ \E h \in Handles : bufs[h].position <= MaxCap /\ read_exact(h, 1)
    \/ \E h \in Handles, buf \in ShareBufs : bufs[h].position <= MaxCap /\ write_all(h, buf)
    \/ \E h \in Handles : index_mut(h, 0, MaxByte)

SpecShare == Init /\ [][NextShare]_vars

WindowOps == {"set_limit", "try_set_limit", "set_position", "try_set_position", "flip", "reset", "seek_start", "seek_end", "seek_cur", "read", "write", "read_exact", "write_all", "read_to_end"}

\* C22: clone creates an instance with the data_ptr, capacity, limit and
\* position of the source, adds one reference, copies no bytes and leaves
\* the source as it was; a byte then written through either of the two is
\* the byte read through the other
C22_Clone ==
    [][/\ last'.op = "clone" =>
            /\ ~bufs[last'.new].live
            /\ bufs' = [bufs EXCEPT ![last'.new] = bufs[last'.h]]
            /\ arcs' = [arcs EXCEPT ![bufs[last'.h].destructor].strong = arcs[bufs[last'.h].destructor].strong + 1]
            /\ mem' = mem
       /\ (last.op = "clone" /\ last'.op = "index_mut" /\ last'.ret.tag = "Ok" /\ last'.h \in {last.h, last.new}) =>
            /\ index_result(bufs'[last.h], last'.x, mem') = last'.out
            /\ index_result(bufs'[last.new], last'.x, mem') = last'.out]_vars

\* a clone of an instance whose limit and position had been moved
C22_Witness ==
    /\ last.op = "clone"
    /\ 0 < last.pre.position
    /\ last.pre.limit < last.pre.capacity
    /\ bufs[last.new] = last.pre
    /\ bufs[last.h] = last.pre
    /\ ref_count(last.new) = 2

\* C23: when an instance is dropped while another instance of its entry
\* lives, the bytes stay, nothing is released, the other instances keep
\* their capacity, limit and position, and the count falls by exactly one
C23_DropOfOriginal ==
    [][(last'.op = "drop" /\ \E g \in Handles \ {last'.h} : bufs[g].live /\ bufs[g].destructor = bufs[last'.h].destructor) =>
        /\ bufs' = [bufs EXCEPT ![last'.h] = NoBuf]
        /\ mem' = mem
        /\ released' = released
        /\ arcs' = [arcs EXCEPT ![bufs[last'.h].destructor].strong = arcs[bufs[last'.h].destructor].strong - 1]]_vars

\* the original (the first instance) was dropped; its clone, with a moved
\* window, is the only instance left and still reads the byte written
C23_Witness ==
    /\ last.op = "drop"
    /\ last.h = 1
    /\ \E g \in Handles :
          /\ LiveOf(last.pre.destructor) = {g}
          /\ bufs[g].data_ptr = last.pre.data_ptr
          /\ bufs[g].capacity = last.pre.capacity
          /\ bufs[g].position > 0
          /\ index_result(bufs[g], 0, mem) = <<1>>
          /\ ref_count(g) = 1
    /\ released = <<>>

\* C24: an operation on the window or the stream of one instance changes no
\* other instance, no reference count and releases nothing
C24_WindowPerInstance ==
    [][last'.op \in WindowOps =>
        /\ \A g \in Handles \ {last'.h} : bufs'[g] = bufs[g]
        /\ arcs' = arcs
        /\ released' = released]_vars

\* a clone has read a byte and moved its position; the other instance of the
\* entry is where it was
C24_Witness ==
    /\ last.op = "read_exact"
    /\ last.ret.tag = "Ok"
    /\ bufs[last.h].position = last.pre.position + 1
    /\ \E g \in Handles \ {last.h} :
          /\ bufs[g].live
          /\ bufs[g].destructor = last.pre.destructor
          /\ bufs[g].data_ptr = last.pre.data_ptr
          /\ bufs[g].position = last.pre.position
          /\ bufs[g].limit = last.pre.limit
    /\ ref_count(last.h) = 2

\* ------------------------------------------------------------- has_destructor
\* C25: has_destructor() of an instance is true exactly when its entry holds
\* a destructor (allocate*, from_raw_parts_with_destructor, the dyn one, and
\* their clones and splits) and false for from_raw_parts and its descendants
C25_HasDestructor ==
    \A h \in Handles : bufs[h].live =>
        (has_destructor(h) <=> HasDestructor(bufs[h].destructor))

\* ------------------------------------------------------------- no destructor
\* buffers on external memory, with and without a destructor, and their
\* clones, splits and drops
NextRaw ==
    \/ from_raw_parts(MaxCap)
    \/ from_raw_parts_with_destructor(MaxCap, 1)
    \/ \E h \in Handles : clone(h)
    \/ \E h \in Handles : split(h, 0, 1)
    \/ \E h \in Handles : drop(h)

SpecRaw == Init /\ [][NextRaw]_vars

\* C26: an entry made by from_raw_parts never has a release event, whatever
\* was cloned, split and dropped, and the drop of any of its instances, the
\* last one included, leaves the memory and the events as they were
C26_NoDestructorNoRelease ==
    \A a \in ArcIds : arcs[a].created /\ ~arcs[a].some =>
        /\ ReleasesOf(a) = {}
        /\ (last.op = "drop" /\ last.pre.destructor = a
               => /\ mem = last.premem
                  /\ (Len(released) > 0 => released[Len(released)].by # last.h
                                             \/ released[Len(released)].arc # a))

\* the last instance of an entry without destructor, a split narrower than
\* the region, was dropped and nothing was released
C26_Witness ==
    /\ last.op = "drop"
    /\ arcs[last.pre.destructor].created
    /\ ~arcs[last.pre.destructor].some
    /\ arcs[last.pre.destructor].strong = 0
    /\ LiveOf(last.pre.destructor) = {}
    /\ last.pre.capacity < arcs[last.pre.destructor].region_size
    /\ ReleasesOf(last.pre.destructor) = {}

\* ------------------------------------------------------------- allocation
AllocSizes == {0, MaxCap, UsizeMod \div 2}
AllocAligns == {0, 1, 3, 4}

\* memory that std::alloc::alloc has not handed out yet holds whatever was
\* left there: the region of the next allocation is overwritten with v
heap_garbage(v) ==
    /\ HasFreeArc
    /\ {x \in 1 .. MaxCap : mem[wrapping_add(RegionBase(FreeArc), x - 1)] # v} # {}
    /\ mem' = [x \in Usize |-> IF \E i \in 1 .. MaxCap : wrapping_add(RegionBase(FreeArc), i - 1) = x
                               THEN v ELSE mem[x]]
    /\ last' = Op("heap_garbage", 0, v, 0, Ret("Ok", 0), NoOut, 0, NoBuf)
    /\ UNCHANGED <<bufs, arcs, released>>
    /\ NoThreads

\* the caller holds at most two buffers at a time
AllocRoom == Cardinality({h \in Handles : bufs[h].live}) < 2

NextAlloc ==
    \/ AllocRoom /\ \E size \in AllocSizes : allocate(size)
    \/ AllocRoom /\ \E size \in AllocSizes : allocate_zeroed(size)
    \/ AllocRoom /\ \E size \in AllocSizes : try_allocate(size)
    \/ AllocRoom /\ \E size \in AllocSizes : try_allocate_zeroed(size)
    \/ AllocRoom /\ \E size \in AllocSizes, alignment \in AllocAligns : allocate_aligned(size, alignment)
    \/ AllocRoom /\ \E size \in AllocSizes, alignment \in AllocAligns : allocate_aligned_zeroed(size, alignment)
    \/ AllocRoom /\ \E size \in AllocSizes, alignment \in AllocAligns : try_allocate_aligned(size, alignment)
    \/ AllocRoom /\ \E size \in AllocSizes, alignment \in AllocAligns : try_allocate_aligned_zeroed(size, alignment)
    \/ \E h \in Handles : drop(h)
    \/ heap_garbage(MaxByte)

SpecAlloc == Init /\ [][NextAlloc]_vars

AllocOps == {"allocate_aligned", "allocate_aligned_zeroed", "try_allocate_aligned", "try_allocate_aligned_zeroed"}
TryOps == {"try_allocate_aligned", "try_allocate_aligned_zeroed"}
ZeroedOps == {"allocate_aligned_zeroed", "try_allocate_aligned_zeroed"}

\* C27: a successful allocation of size > 0 by any of the constructors gives
\* an instance with capacity = limit = size and position 0 on an entry that
\* did not exist before, has reference count 1 and no other instance, and
\* holds the layout (size, alignment) of the request with the base pointer,
\* which is aligned to the alignment; the release of that entry is the
\* deallocation of the base pointer with that layout
C27_Allocate ==
    [][/\ (last'.op \in AllocOps /\ last'.ret.tag = "Ok" /\ last'.x > 0) =>
             LET b == bufs'[last'.h]
                 a == b.destructor
             IN /\ ~bufs[last'.h].live
                /\ b.live
                /\ b.capacity = last'.x
                /\ b.limit = last'.x
                /\ b.position = 0
                /\ ~arcs[a].created
                /\ arcs'[a].created
                /\ arcs'[a].some
                /\ arcs'[a].strong = 1
                /\ \A g \in Handles : bufs'[g].live /\ bufs'[g].destructor = a => g = last'.h
                /\ arcs'[a].destructor_info = [tag |-> "Layout", a |-> last'.x, b |-> last'.y]
                /\ arcs'[a].data_ptr = b.data_ptr
                /\ IsAligned(b.data_ptr, last'.y)
       /\ (last'.op = "drop" /\ arcs[last'.pre.destructor].destructor_info.tag = "Layout"
              /\ arcs'[last'.pre.destructor].strong = 0) =>
             /\ Len(released') = Len(released) + 1
             /\ released'[Len(released')].info = arcs[last'.pre.destructor].destructor_info
             /\ released'[Len(released')].ptr = last'.pre.data_ptr
             /\ released'[Len(released')].size = last'.pre.capacity
      ]_vars

\* an allocation of MaxCap bytes aligned to 4 by the fallible zeroed
\* constructor succeeded
C27_Witness ==
    /\ last.op = "try_allocate_aligned_zeroed"
    /\ last.ret.tag = "Ok"
    /\ last.x = MaxCap
    /\ last.y = 4
    /\ bufs[last.h].live
    /\ ref_count(last.h) = 1

\* C28: after a successful zeroed allocation every byte of the new instance
\* at an index in [0, capacity) is 0
C28_Zeroed ==
    (last.op \in ZeroedOps /\ last.ret.tag = "Ok") =>
        \A i \in 0 .. bufs[last.h].capacity - 1 :
            /\ mem[wrapping_add(bufs[last.h].data_ptr, i)] = 0
            /\ index_result(bufs[last.h], i, mem) = <<0>>

\* a zeroed allocation of MaxCap bytes succeeded on memory that held other
\* bytes before
C28_Witness ==
    /\ last.op \in ZeroedOps
    /\ last.ret.tag = "Ok"
    /\ last.x = MaxCap
    /\ \A i \in 0 .. MaxCap - 1 : last.premem[wrapping_add(bufs[last.h].data_ptr, i)] # 0

\* C29: a fallible allocation of size 0 fails with HBufError::ZeroSize and
\* creates no instance
C29_ZeroSize ==
    (last.op \in TryOps /\ last.x = 0) =>
        /\ last.ret.tag = "Err_ZeroSize"
        /\ last.new = 0

\* an alignment that Layout::from_size_align refuses for the size
BadAlignment(size, alignment) == alignment = 0 \/ ~IsPowerOfTwo(alignment) \/ ~Layout_from_size_align(size, alignment)

\* C30: a request with alignment 0, not a power of two or not fitting the
\* size fails with LayoutError from the fallible constructors and panics in
\* the others; a valid request of size > 0 that the allocator cannot serve
\* fails with OutOfMemory or aborts; a failed request leaves instances,
\* entries, release events and memory as they were
C30_AllocateFails ==
    [][last'.op \in AllocOps =>
          /\ BadAlignment(last'.x, last'.y) =>
                last'.ret.tag = (IF last'.op \in TryOps THEN "Err_LayoutError" ELSE "Panic")
          /\ (~BadAlignment(last'.x, last'.y) /\ last'.x > 0 /\ ~HasFreeArc) =>
                last'.ret.tag = (IF last'.op \in TryOps THEN "Err_OutOfMemory" ELSE "Abort")
          /\ last'.ret.tag \in {"Err_OutOfMemory", "Abort"} =>
                ~BadAlignment(last'.x, last'.y) /\ last'.x > 0
          /\ last'.ret.tag # "Ok" =>
                /\ last'.new = 0
                /\ bufs' = bufs
                /\ arcs' = arcs
                /\ released' = released
                /\ mem' = mem
      ]_vars

\* the fallible zeroed constructor refused alignment 3 while an earlier
\* allocation was alive
C30_Witness ==
    /\ last.op = "try_allocate_aligned_zeroed"
    /\ last.x = MaxCap
    /\ last.y = 3
    /\ last.ret.tag = "Err_LayoutError"
    /\ \E h \in Handles : bufs[h].live

\* ------------------------------------------------------------- typed views
\* the slice a typed view function makes for an element type T = <<size_of,
\* align_of>>: None when data_ptr is not a multiple of align_of, else the
\* limit / size_of elements at data_ptr, each as the bytes it lies on
typed_slice_unaligned_bug(b, T, m) == [tag |-> "Some", len |-> b.limit \div T[1], view |-> [k \in 1 .. b.limit \div T[1] |-> MemRead(m, wrapping_add(b.data_ptr, (k - 1) * T[1]), T[1])]]
typed_slice_len_bug(b, T, m) == 
    IF ~IsAligned(b.data_ptr, T[2]) THEN [tag |-> "None", len |-> 0, view |-> NoOut]
    ELSE [tag |-> "Some", len |-> (b.limit + T[1] - 1) \div T[1], view |-> [k \in 1 .. (b.limit + T[1] - 1) \div T[1] |-> MemRead(m, wrapping_add(b.data_ptr, (k - 1) * T[1]), T[1])]]
typed_slice(b, T, m) ==
    IF ~IsAligned(b.data_ptr, T[2])
    THEN [tag |-> "None", len |-> 0, view |-> NoOut]
    ELSE LET len == b.limit \div T[1] IN
         [tag |-> "Some", len |-> len, view |-> [k \in 1 .. len |-> MemRead(m, wrapping_add(b.data_ptr, (k - 1) * T[1]), T[1])]]

\* known_type!: as_slice_T()
as_slice_T(h, T) ==
    /\ bufs[h].live
    /\ LET r == typed_slice(bufs[h], T, mem) IN Stream(h, bufs[h], mem, "as_slice_T", T, Ret(r.tag, r.len), r.view)

\* known_type!: as_mut_slice_T()
as_mut_slice_T(h, T) ==
    /\ bufs[h].live
    /\ LET r == typed_slice(bufs[h], T, mem) IN Stream(h, bufs[h], mem, "as_mut_slice_T", T, Ret(r.tag, r.len), r.view)

\* HBuf::as_slice_generic::<T>() and as_mut_slice_generic::<T>()
as_slice_generic(h, T) ==
    /\ bufs[h].live
    /\ LET r == typed_slice(bufs[h], T, mem) IN Stream(h, bufs[h], mem, "as_slice_generic", T, Ret(r.tag, r.len), r.view)

\* atomic_type!: as_slice_atomic_T(), the cells as the bytes they lie on
as_slice_atomic_T(h, T) ==
    /\ bufs[h].live
    /\ LET r == typed_slice(bufs[h], T, mem) IN Stream(h, bufs[h], mem, "as_slice_atomic_T", T, Ret(r.tag, r.len), r.view)

\* HBuf::as_slice, as_mut_slice, Deref, DerefMut: the limit bytes at data_ptr
as_slice(h) ==
    /\ bufs[h].live
    /\ Stream(h, bufs[h], mem, "as_slice", <<1, 1>>, Ret("Some", bufs[h].limit), MemRead(mem, bufs[h].data_ptr, bufs[h].limit))

\* atomic_type!: as_atomic_T(index): None when index+sz-1 >= self.limit or
\* the address is not a multiple of align_of, else the cell at that address
as_atomic_T(h, i, T) ==
    /\ bufs[h].live
    /\ LET b == bufs[h]
           c == bounds_generic(b, i, T[1])
           ptr == wrapping_add(b.data_ptr, i)
       IN IF c = "Overflow"
          THEN Stream(h, b, mem, "as_atomic_T", i, Ret("Panic", T[1]), NoOut)
          ELSE IF c = "OutOfBounds" \/ ~IsAligned(ptr, T[2])
               THEN Stream(h, b, mem, "as_atomic_T", i, Ret("None", T[1]), NoOut)
               ELSE Stream(h, b, mem, "as_atomic_T", i, Ret("Some", T[1]), <<ptr>>)

\* the element types: a byte, a 2-byte and a 4-byte integer aligned to their
\* size, and a 3-byte integer (uintx::u24) aligned to 1
ElemTypes == {<<1, 1>>, <<2, 2>>, <<3, 1>>, <<4, 4>>}

\* the atomic types: AtomicU8 and AtomicU16
AtomicTypes == {<<1, 1>>, <<2, 2>>}

\* a zeroed buffer aligned to 4, its split at offset 1, their limits, and
\* the byte, typed and atomic accessors
NextTyped ==
    \/ Fresh /\ allocate_aligned_zeroed(MaxCap, 4)
    \/ \E h \in Handles : ShareRoom /\ split(h, 1, MaxCap - 1)
    \/ \E h \in Handles, n \in 0 .. MaxCap : set_limit(h, n)
    \/ \E h \in Handles, i \in 0 .. 1 : index_mut(h, i, MaxByte)
    \/ \E h \in Handles, T \in ElemTypes : as_slice_T(h, T)
    \/ \E h \in Handles, T \in ElemTypes : as_mut_slice_T(h, T)
    \/ \E h \in Handles, T \in ElemTypes : as_slice_generic(h, T)
    \/ \E h \in Handles, T \in AtomicTypes : as_slice_atomic_T(h, T)
    \/ \E h \in Handles : as_slice(h)
    \/ \E h \in Handles, i \in {0, 1, MaxCap, UsizeMax}, T \in AtomicTypes : as_atomic_T(h, i, T)
    \/ \E h \in Handles, i \in {0, 1, MaxCap, UsizeMax}, sz \in ElemSizes : get_T(h, i, sz)
    \/ \E h \in Handles, i \in {0, 1, MaxCap, UsizeMax}, v \in {[j \in 1 .. sz |-> MaxByte] : sz \in ElemSizes} : set_T(h, i, v)
    \/ \E h \in Handles, i \in {0, 1, MaxCap, UsizeMax}, sz \in ElemSizes : get(h, i, sz)
    \/ \E h \in Handles, i \in {0, 1, MaxCap, UsizeMax}, v \in {[j \in 1 .. sz |-> MaxByte] : sz \in ElemSizes} : set(h, i, v)

SpecTyped == Init /\ [][NextTyped]_vars

SliceOps == {"as_slice_T", "as_mut_slice_T", "as_slice_generic", "as_slice_atomic_T"}

\* T::from_le_bytes
RECURSIVE from_le_bytes(_)
from_le_bytes(bytes) ==
    IF Len(bytes) = 0 THEN 0 ELSE bytes[1] + 256 * from_le_bytes(Tail(bytes))

\* C31: a typed slice function returns a view exactly when data_ptr is a
\* multiple of the alignment of the element type and None otherwise, never
\* a panic; the split at offset 1 of a buffer aligned to 4 has no view of
\* 2-byte elements, and on the zeroed buffer aligned to 4 the first 2-byte
\* element read right after buf[0] = v is v as a little-endian value
C31_AlignedViews ==
    [][/\ last'.op \in SliceOps =>
             /\ last'.ret.tag \in {"Some", "None"}
             /\ (last'.ret.tag = "Some" <=> last'.pre.data_ptr % last'.x[2] = 0)
             /\ bufs' = bufs /\ mem' = mem
       /\ (last'.op \in SliceOps /\ last'.x = <<2, 2>>
              /\ last'.pre.data_ptr = arcs[last'.pre.destructor].region_base + 1) =>
             last'.ret.tag = "None"
       /\ (last.op = "index_mut" /\ last.ret.tag = "Ok" /\ last.x = 0
              /\ last'.op \in SliceOps /\ last'.h = last.h /\ last'.x = <<2, 2>>
              /\ last'.pre.data_ptr = arcs[last'.pre.destructor].region_base
              /\ last'.pre.limit >= 2 /\ mem[wrapping_add(last'.pre.data_ptr, 1)] = 0) =>
             /\ last'.ret.tag = "Some"
             /\ from_le_bytes(last'.out[1]) = last.out[1]
      ]_vars

\* a 2-byte view of the zeroed buffer was taken right after its byte 0 was
\* written, and the split at offset 1 exists
C31_Witness ==
    /\ last.op = "as_slice_T"
    /\ last.x = <<2, 2>>
    /\ last.ret = Ret("Some", 1)
    /\ last.out = <<(<<MaxByte, 0>>)>>
    /\ \E g \in Handles : bufs[g].live /\ bufs[g].data_ptr = last.pre.data_ptr + 1

\* C32: a typed or atomic slice view has floor(limit / size_of) elements for
\* the limit at the call, element k lying on the bytes [(k-1) * size_of,
\* k * size_of), all below the limit; the byte view has exactly limit bytes
C32_ViewLength ==
    /\ (last.op \in SliceOps /\ last.ret.tag = "Some") =>
          LET b == last.pre
              sz == last.x[1]
          IN /\ last.ret.val = b.limit \div sz
             /\ Len(last.out) = b.limit \div sz
             /\ Len(last.out) * sz <= b.limit
             /\ \A k \in 1 .. Len(last.out) : \A j \in 1 .. sz :
                   /\ (k - 1) * sz + j - 1 < b.limit
                   /\ last.out[k][j] = last.premem[wrapping_add(b.data_ptr, (k - 1) * sz + j - 1)]
    /\ last.op = "as_slice" =>
          /\ Len(last.out) = last.pre.limit
          /\ \A j \in 1 .. Len(last.out) : last.out[j] = last.premem[wrapping_add(last.pre.data_ptr, j - 1)]

\* a view of 2-byte elements of a buffer with limit 3 has one element: the
\* third byte, which holds a value, is not in it
C32_Witness ==
    /\ last.op \in SliceOps
    /\ last.x = <<2, 2>>
    /\ last.ret = Ret("Some", 1)
    /\ last.pre.limit = 3
    /\ mem[wrapping_add(last.pre.data_ptr, 2)] # 0

\* C33: for an index with index + size_of <= limit, at any alignment,
\* set_T / set store the bytes of the value at [index, index + size_of) and
\* change no other byte, get_T / get return the bytes at [index, index +
\* size_of) in memory order (their little-endian value is the sum of byte j
\* times 256^j), and a get right after a set at the same index returns the
\* value that was set
C33_TypedAccess ==
    [][/\ (last'.op \in {"set_T", "set"} /\ last'.x + last'.ret.val <= last'.pre.limit) =>
             /\ last'.ret.tag = "Ok"
             /\ \A x \in Usize :
                   mem'[x] = IF \E j \in 1 .. last'.ret.val : x = wrapping_add(last'.pre.data_ptr, last'.x + j - 1)
                             THEN last'.out[CHOOSE j \in 1 .. last'.ret.val : x = wrapping_add(last'.pre.data_ptr, last'.x + j - 1)]
                             ELSE mem[x]
       /\ (last'.op \in {"get_T", "get"} /\ last'.x + last'.ret.val <= last'.pre.limit) =>
             /\ last'.ret.tag = "Ok"
             /\ mem' = mem
             /\ Len(last'.out) = last'.ret.val
             /\ \A j \in 1 .. last'.ret.val : last'.out[j] = mem[wrapping_add(last'.pre.data_ptr, last'.x + j - 1)]
             /\ from_le_bytes(last'.out) = from_le_bytes([j \in 1 .. last'.ret.val |-> mem[wrapping_add(last'.pre.data_ptr, last'.x + j - 1)]])
       /\ (last.op \in {"set_T", "set"} /\ last.ret.tag = "Ok" /\ last.x + last.ret.val <= last.pre.limit
              /\ last'.op \in {"get_T", "get"} /\ last'.h = last.h /\ last'.x = last.x
              /\ last'.ret.val = last.ret.val) =>
             /\ last'.ret.tag = "Ok"
             /\ last'.out = last.out
      ]_vars

\* a 2-byte value set at an odd address was read back; the byte before it
\* holds another value
C33_Witness ==
    /\ last.op = "get_T"
    /\ last.ret = Ret("Ok", 2)
    /\ wrapping_add(last.pre.data_ptr, last.x) % 2 = 1
    /\ last.out = <<MaxByte, MaxByte>>
    /\ last.premem = mem
    /\ mem[wrapping_add(last.pre.data_ptr, last.x) - 1] = 0

\* C34: as_slice_atomic_T and as_atomic_T(index) return Some or None and
\* never panic; as_slice_atomic_T returns None exactly when data_ptr is not
\* aligned for the atomic type; as_atomic_T returns None exactly when index +
\* size - 1 >= limit or data_ptr + index is not aligned, and otherwise the
\* cell at data_ptr + index
C34_AtomicLookup ==
    /\ last.op = "as_slice_atomic_T" =>
          /\ last.ret.tag \in {"Some", "None"}
          /\ (last.ret.tag = "None" <=> last.pre.data_ptr % last.x[2] # 0)
    /\ last.op = "as_atomic_T" =>
          LET b == last.pre
              sz == last.ret.val
          IN /\ last.ret.tag \in {"Some", "None"}
             /\ (last.ret.tag = "None" <=> (last.x + sz - 1 >= b.limit \/ (b.data_ptr + last.x) % sz # 0))
             /\ (last.ret.tag = "Some" => last.out = <<b.data_ptr + last.x>>)

\* ------------------------------------------------------------- concurrent atomics
\* the atomic instruction behind <$atomic>::from_ptr(ptr).load / store / swap /
\* compare_exchange / compare_exchange_weak, one indivisible step on the cell
\* of call.sz bytes at call.ptr: the memory after it, Ok or Err, and the
\* value it returns; a weak compare_exchange may fail though the cell matches
AtomicRmw_bug(m, call, spurious) ==
    LET old == MemRead(m, call.ptr, call.sz) IN
    IF call.op = "atomic_load" THEN [mem |-> m, tag |-> "Ok", out |-> old]
    ELSE IF call.op = "atomic_store" THEN [mem |-> MemWrite(m, call.ptr, call.value), tag |-> "Ok", out |-> NoOut]
    ELSE [mem |-> MemWrite(m, call.ptr, call.value), tag |-> "Ok", out |-> old]

AtomicRmw_lost_bug(m, call, spurious) ==
    LET old == MemRead(m, call.ptr, call.sz) IN
    IF call.op = "atomic_load" THEN [mem |-> m, tag |-> "Ok", out |-> old]
    ELSE IF call.op = "atomic_store" THEN [mem |-> m, tag |-> "Ok", out |-> NoOut]
    ELSE IF call.op = "atomic_swap" THEN [mem |-> MemWrite(m, call.ptr, call.value), tag |-> "Ok", out |-> old]
    ELSE IF old = call.current /\ ~spurious
         THEN [mem |-> MemWrite(m, call.ptr, call.value), tag |-> "Ok", out |-> old]
         ELSE [mem |-> m, tag |-> "Err", out |-> old]

AtomicRmw(m, call, spurious) ==
    LET old == MemRead(m, call.ptr, call.sz) IN
    IF call.op = "atomic_load" THEN [mem |-> m, tag |-> "Ok", out |-> old]
    ELSE IF call.op = "atomic_store" THEN [mem |-> MemWrite(m, call.ptr, call.value), tag |-> "Ok", out |-> NoOut]
    ELSE IF call.op = "atomic_swap" THEN [mem |-> MemWrite(m, call.ptr, call.value), tag |-> "Ok", out |-> old]
    ELSE IF old = call.current /\ ~spurious
         THEN [mem |-> MemWrite(m, call.ptr, call.value), tag |-> "Ok", out |-> old]
         ELSE [mem |-> m, tag |-> "Err", out |-> old]

\* a thread enters an atomic accessor of its instance: the test
\* index+sz-1 >= self.limit and the debug_assert_eq! run on the thread's own
\* fields, then the thread stands before the atomic instruction
AtomicCall(t, h, name, i, current, value) ==
    /\ pc[t] = "idle"
    /\ bufs[h].live
    /\ LET b == bufs[h]
           sz == Len(value)
       IN \E c \in AtomicOutcomes(b, i, sz, bounds_generic(b, i, sz)) :
             IF c = "Pass"
             THEN /\ pc' = [pc EXCEPT ![t] = "atomic_called"]
                  /\ tmp' = [tmp EXCEPT ![t] = [old |-> 0, arc |-> 0, h |-> h, op |-> name, index |-> i,
                                                 ptr |-> wrapping_add(b.data_ptr, i), sz |-> sz,
                                                 current |-> current, value |-> value]]
                  /\ last' = Op("atomic_call", h, i, t, Ret("Ok", sz), value, 0, b)
             ELSE /\ UNCHANGED <<pc, tmp>>
                  /\ last' = Op(name, h, i, t, Ret(IF c = "Fault" THEN "Fault" ELSE "Panic", sz), value, 0, b)
    /\ UNCHANGED <<overflow_checks, bufs, arcs, released, mem>>

\* atomic_type!: load(index, ordering) of an atomic of sz bytes, by a thread
thread_atomic_load(t, h, i, sz) == AtomicCall(t, h, "atomic_load", i, <<>>, [j \in 1 .. sz |-> 0])

\* atomic_type!: store(index, value, ordering), by a thread
thread_atomic_store(t, h, i, value) == AtomicCall(t, h, "atomic_store", i, <<>>, value)

\* atomic_type!: swap(index, value, ordering), by a thread
thread_atomic_swap(t, h, i, value) == AtomicCall(t, h, "atomic_swap", i, <<>>, value)

\* atomic_type!: compare_exchange(index, current, update, ..), by a thread
thread_atomic_compare_exchange(t, h, i, current, update) ==
    AtomicCall(t, h, "atomic_compare_exchange", i, current, update)

\* atomic_type!: compare_exchange_weak(index, current, update, ..), by a thread
thread_atomic_compare_exchange_weak(t, h, i, current, update) ==
    AtomicCall(t, h, "atomic_compare_exchange_weak", i, current, update)

\* the thread runs the atomic instruction and the accessor returns; the
\* thread keeps the call and what it returned
thread_atomic_finish(t) ==
    /\ pc[t] = "atomic_called"
    /\ LET call == tmp[t] IN
       \E spurious \in (IF call.op = "atomic_compare_exchange_weak" THEN BOOLEAN ELSE {FALSE}) :
          LET r == AtomicRmw(mem, call, spurious) IN
          /\ mem' = r.mem
          /\ last' = Op(call.op, call.h, call.index, t, Ret(r.tag, call.sz), r.out, 0, bufs[call.h])
          /\ tmp' = [tmp EXCEPT ![t] = [old |-> 0, arc |-> 0, h |-> call.h, op |-> call.op, index |-> call.index,
                                         ptr |-> call.ptr, sz |-> call.sz, current |-> call.current,
                                         value |-> call.value, tag |-> r.tag, ret |-> r.out]]
    /\ pc' = [pc EXCEPT ![t] = "idle"]
    /\ UNCHANGED <<overflow_checks, bufs, arcs, released>>

\* the values of the 2-byte cell at index 0: 0, MaxByte and 257 * MaxByte
AtomicValues == {<<0, 0>>, <<MaxByte, 0>>, <<MaxByte, MaxByte>>}

\* one aligned allocation, one clone for each further thread, and the
\* threads' atomic operations on the cell at index 0, each thread through
\* its own instance
NextAtomic ==
    \/ Fresh /\ allocate_aligned_zeroed(MaxCap, 4)
    \/ Cardinality({h \in Handles : bufs[h].live}) < MaxThreads /\ thread_clone(1, 1)
    \/ \E t \in Threads, i \in {0, MaxCap} : thread_atomic_load(t, t, i, 2)
    \/ \E t \in Threads : thread_atomic_store(t, t, 0, <<MaxByte, 0>>)
    \/ \E t \in Threads : thread_atomic_swap(t, t, 0, <<MaxByte, MaxByte>>)
    \/ \E t \in Threads, c \in {<<0, 0>>, <<MaxByte, 0>>}, u \in {<<MaxByte, 0>>, <<MaxByte, MaxByte>>} :
          thread_atomic_compare_exchange(t, t, 0, c, u)
    \/ \E t \in Threads : thread_atomic_compare_exchange_weak(t, t, 0, <<0, 0>>, <<MaxByte, MaxByte>>)
    \/ \E t \in Threads : thread_atomic_finish(t)

SpecAtomic == Init /\ [][NextAtomic]_vars

\* the operations that returned from the atomic instruction
AtomicOps == {"atomic_load", "atomic_store", "atomic_swap", "atomic_compare_exchange", "atomic_compare_exchange_weak"}

\* C35: the atomic operations of the threads, each through its own clone, on
\* one aligned cell take effect one at a time: the cell changes only in the
\* atomic step of a store, a swap or a successful compare-exchange, to the
\* value of that operation; a load, a swap and a compare-exchange return the
\* value the cell held just before their step (so every load returns the
\* initial value or a written one and no update is lost); a strong
\* compare-exchange succeeds exactly when the cell holds the expected value;
\* and of two strong compare-exchanges in flight with the same expected value
\* and other new values, the one that runs right after the other succeeded
\* fails and returns the value the winner wrote
C35_Linearizable ==
    [][/\ mem' # mem =>
             /\ last'.op \in {"atomic_store", "atomic_swap", "atomic_compare_exchange", "atomic_compare_exchange_weak"}
             /\ last'.ret.tag = "Ok"
             /\ mem' = MemWrite(mem, tmp[last'.y].ptr, tmp[last'.y].value)
       /\ (last'.op \in AtomicOps /\ last'.ret.tag \in {"Ok", "Err"}) =>
             LET call == tmp[last'.y]
                 cell == MemRead(mem, call.ptr, call.sz)
             IN /\ pc[last'.y] = "atomic_called" /\ call.op = last'.op /\ call.h = last'.h
                /\ call.op # "atomic_store" => last'.out = cell
                /\ call.op \in {"atomic_store", "atomic_swap"} => MemRead(mem', call.ptr, call.sz) = call.value
                /\ call.op = "atomic_load" => mem' = mem
                /\ call.op = "atomic_compare_exchange" => (last'.ret.tag = "Ok" <=> cell = call.current)
                /\ call.op = "atomic_compare_exchange_weak" => (last'.ret.tag = "Ok" => cell = call.current)
                /\ call.op \in {"atomic_compare_exchange", "atomic_compare_exchange_weak"} =>
                      MemRead(mem', call.ptr, call.sz) = (IF last'.ret.tag = "Ok" THEN call.value ELSE cell)
       /\ (/\ last.op = "atomic_compare_exchange" /\ last.ret.tag = "Ok"
           /\ tmp[last.y].value # tmp[last.y].current
           /\ last'.op = "atomic_compare_exchange" /\ last'.ret.tag \in {"Ok", "Err"}
           /\ last'.y # last.y /\ last'.h # last.h
           /\ tmp[last'.y].ptr = tmp[last.y].ptr
           /\ tmp[last'.y].current = tmp[last.y].current) =>
             /\ last'.ret.tag = "Err"
             /\ last'.out = tmp[last.y].value
      ]_vars

\* two threads stood before a strong compare-exchange of the cell from 0 to
\* different values; one has succeeded and the other has just failed with
\* the winner's value
C35_Witness ==
    /\ last.op = "atomic_compare_exchange"
    /\ last.ret.tag = "Err"
    /\ tmp[last.y].current = <<0, 0>>
    /\ tmp[last.y].value # last.out
    /\ \E u \in Threads :
          /\ u # last.y
          /\ pc[u] = "idle"
          /\ "tag" \in DOMAIN tmp[u]
          /\ tmp[u].op = "atomic_compare_exchange" /\ tmp[u].tag = "Ok" /\ tmp[u].ret = <<0, 0>>
          /\ tmp[u].value = last.out
          /\ MemRead(mem, tmp[u].ptr, 2) = last.out

\* ------------------------------------------------------------- the threading example
\* thread 1 is the main thread: it allocates x (of 2 bytes or more, aligned
\* to 2 or more), clones it once for each
\* spawned thread, stores the value at index 0 once all are spawned, joins
\* them and drops x; every other thread t loads index 0 through its clone
\* (instance t) until it reads the value, then drops the clone
ExampleThread(t) ==
    LET value == <<MaxByte, 0>>
        spawned == {h \in Handles : bufs[h].live}
    IN IF t = 1
       THEN \/ Fresh /\ \E size \in {2, MaxCap}, alignment \in {2, 4} : allocate_aligned_zeroed(size, alignment)
            \/ tmp[1] = NoFetch /\ bufs[1].live /\ Cardinality(spawned) < MaxThreads /\ thread_clone(1, 1)
            \/ tmp[1] = NoFetch /\ Cardinality(spawned) = MaxThreads /\ thread_atomic_store(1, 1, 0, value)
            \/ thread_atomic_finish(1)
            \/ /\ "tag" \in DOMAIN tmp[1]
               /\ \A u \in Threads \ {1} : ~bufs[u].live /\ pc[u] = "idle"
               /\ thread_drop_fetch_sub(1, 1)
            \/ thread_drop_finish(1)
       ELSE \/ (IF "tag" \in DOMAIN tmp[t] THEN tmp[t].ret # value ELSE TRUE) /\ thread_atomic_load(t, t, 0, 2)
            \/ thread_atomic_finish(t)
            \/ "tag" \in DOMAIN tmp[t] /\ tmp[t].ret = value /\ thread_drop_fetch_sub(t, t)
            \/ thread_drop_finish(t)

NextExample == \E t \in Threads : ExampleThread(t)

SpecExample == Init /\ [][NextExample]_vars

\* the scheduler lets every thread that can run take a step
FairExample == SpecExample /\ \A t \in Threads : WF_vars(ExampleThread(t))

\* C36: once the main thread's atomic store of the value through the
\* original has returned, every thread that loads the index through its clone
\* until it reads the value does read it and ends, and the release action of
\* the memory does not run while an instance is left
C36_LoaderTerminates ==
    /\ (last.op = "atomic_store" /\ last.ret.tag = "Ok")
          ~> (\A u \in Threads \ {1} : ~bufs[u].live /\ pc[u] = "idle")
    /\ [](released # <<>> => \A h \in Handles : ~bufs[h].live)

\* a thread has read through its clone the value that the main thread
\* stored through the original, which is still alive
C36_Witness ==
    /\ last.op = "atomic_load"
    /\ last.h # 1
    /\ last.out = <<MaxByte, 0>>
    /\ last.premem = mem
    /\ bufs[1].live
    /\ "tag" \in DOMAIN tmp[1] /\ tmp[1].op = "atomic_store"

\* ------------------------------------------------------------- seek offsets
\* C37: for every i64 offset, the smallest and the largest included, a seek
\* from the end or from the current position either moves the position to
\* limit + offset or position + offset, where that lies in [0, limit], or
\* fails with UnexpectedEof and leaves the fields as they were; it never
\* ends in any other way
C37_SeekOffsets ==
    last.op \in {"seek_end", "seek_cur"} =>
        LET b == last.pre
            t == SeekTarget(b, last.op, last.x)
        IN IF 0 <= t /\ t <= b.limit
           THEN last.ret = Ret("Ok", t) /\ bufs[last.h] = [b EXCEPT !.position = t]
           ELSE last.ret.tag = "Err_UnexpectedEof" /\ bufs[last.h] = b

\* ------------------------------------------------------------- read_to_end
\* C38: read_to_end appends exactly the bytes of [position, limit), returns
\* their number limit - position (0 and nothing appended when position =
\* limit, and nothing from at or beyond the limit), sets the position to the
\* limit and leaves the memory as it was
C38_ReadToEnd ==
    last.op = "read_to_end" =>
        LET b == last.pre
            k == IF b.position <= b.limit THEN b.limit - b.position ELSE 0
        IN /\ last.ret = Ret("Ok", k)
           /\ last.out = MemRead(last.premem, wrapping_add(b.data_ptr, b.position), k)
           /\ bufs[last.h] = [b EXCEPT !.position = IF k = 0 THEN b.position ELSE b.limit]
           /\ mem = last.premem

====
